---- MODULE Spec2Model ----
(***************************************************************************)
(* Document processing queue of government_contracts_v2.                   *)
(*                                                                         *)
(* The repository table document_processing_queue (models.py), the         *)
(* enqueue path and queue controller (services/background_processor.py),   *)
(* the three Norshin drivers (services/sequential_processor.py,            *)
(* services/parallel_processor.py, services/async_processor.py) and the    *)
(* administrative routes (routes/admin_routes.py, routes/api_routes.py).   *)
(*                                                                         *)
(* Granularity: one action per database commit or blocking call.  A        *)
(* handler that neither blocks nor commits twice is one action; a handler  *)
(* that waits for the network, a sleep or a thread is split at the wait.   *)
(* Rows come back from a query without ORDER BY in ascending id order.     *)
(***************************************************************************)
EXTENDS Bags, FiniteSets, Integers, Sequences, TLC

(***************************************************************************)
(* Bounds of the model                                                     *)
(***************************************************************************)
MaxRecords == 3
MaxPairs == 2
MaxSize == 2
MaxClock == 30
TickMinutes == 10
MaxInFlight == 2
MaxRetryCount == 3
MaxRetryCountAlone == 5
RunRecords == 3
MaxAliveThreads == 2
MaxBatch == 11
MaxMegabytes == 140
MaxManaged == 2
MaxPriority == 1
MaxTaken == 2
MaxManagedRetryCount == 5
MaxDirectCalls == 2

(***************************************************************************)
(* Constants of the program                                                *)
(***************************************************************************)
StuckMinutes == 20
DefaultMaxRetries == 3
DefaultPriority == 0
ProcessingTimeoutMinutes == 5
SemaphoreLimit == 10
MaxWorkers == 5

NoTime == -1
NoId == 0

Pairs == 1..MaxPairs
Sizes == 1..MaxSize
Ids == 1..MaxRecords
Payloads == {1, 2}

\* HTTP status codes of the extraction service; TimeoutExc stands for the
\* requests/aiohttp exception raised when no response arrives in time.
TimeoutExc == 0
StatusCodes == {200, 401, 500, 504}
Outcomes == StatusCodes \cup {TimeoutExc}

(***************************************************************************)
(* Error messages, as the text the code formats with its one argument.     *)
(***************************************************************************)
Msg(text, arg) == [text |-> text, arg |-> arg]
NoMsg == Msg("None", 0)

SeqApiError(code) == Msg("Norshin API error {code}: {text}", code)
SeqException(code) == Msg("str(e)", code)
SeqFileNotFound == Msg("Document file not found: {path}", 0)
ParApiError(code) == Msg("API Error: {code} - {text}", code)
ParTimeout == Msg("Request timeout after 3 minutes", 0)
ParFileNotFound == Msg("Document file not found: {path}", 0)
AsyncFileNotFound == Msg("Local file not found: {path}", 0)
AsyncNotConfigured == Msg("Norshin API URL not configured", 0)
AsyncGatewayTimeout ==
    Msg("Norshin API timeout (504) - document may have been processed successfully by Norshin's retry mechanism", 504)
AsyncApiError(code) == Msg("Norshin API error: {status} - {text}", code)
AsyncException(code) == Msg("str(e)", code)
ResetMsg(n) == Msg("Reset due to timeout after {n} attempts", n)
AutoResetMsg(n) == Msg("Auto-reset due to timeout after {n} attempts", n)

(***************************************************************************)
(* json.dumps / json.loads of a result payload                             *)
(***************************************************************************)
NoData == [json |-> FALSE, text |-> 0]
Dumps(payload) == [json |-> TRUE, text |-> payload]
Loads(data) == data.text

NoPath == "None"
EmptyPath == ""
ResultPath == "processed_queue_documents/{contract}_{stem}.json"
CopyPath == "processed_queue_documents/{timestamp}_{name}"

(***************************************************************************)
(* Timeouts of the extraction request                                      *)
(***************************************************************************)
Megabyte == 1024 * 1024
BaseTimeout == 300
StepMegabytes == 10
StepTimeout == 120
MaxTimeout == 1800
ClientTimeoutTotal == 3600

\* file sizes in bytes: every whole number of megabytes and the byte before
FileSizes ==
    {m * Megabyte - d : m \in 0..MaxMegabytes, d \in {0, 1}} \ {-1}

Min(a, b) == IF a <= b THEN a ELSE b

\* int(x) of a non-negative quotient of two sizes
IntDiv(a, b) == a \div b

NoRequest == [driver |-> "None", seconds |-> 0]
Request(driver, seconds) == [driver |-> driver, seconds |-> seconds]

\* sequential driver: timeout = 300 + int(file_size_mb / 10) * 120, then
\* min(timeout, 1800), with file_size_mb = st_size / (1024 * 1024)
SeqTimeout(st_size) ==
    Min(BaseTimeout + IntDiv(st_size, StepMegabytes * Megabyte) * StepTimeout, MaxTimeout)

\* thread-pool driver: the same two lines
ParRequestTimeout(st_size) ==
    Min(BaseTimeout + IntDiv(st_size, StepMegabytes * Megabyte) * StepTimeout, MaxTimeout)

\* async driver: aiohttp.ClientTimeout(total=3600)
AsyncClientTimeout(st_size) == ClientTimeoutTotal

VARIABLES
    queue,              \* table document_processing_queue: id -> row
    next_id,            \* next value of the autoincrement primary key
    files,              \* queue_documents/: pair -> size in bytes, 0 = no file
    processed_dir,      \* processed_queue_documents/: set of <<kind, pair>>
    now,                \* datetime.utcnow(), in minutes
    is_processing,      \* BackgroundDocumentProcessor.is_processing
    queue_enabled,      \* BackgroundDocumentProcessor.queue_enabled
    processing_thread,  \* BackgroundDocumentProcessor.processing_thread
    orphan_threads,     \* background threads alive but no longer referenced
    requests,           \* bag of web requests waiting at a blocking call
    seq,                \* run of SequentialDocumentProcessor
    par,                \* run of ParallelDocumentProcessor
    asy,                \* run of AsyncDocumentProcessor
    norshin_api_url,    \* NORSHIN_API_URL is set
    norshin_api_key,    \* NORSHIN_API_KEY is set
    file_size,          \* st_size of the file of the request that is being built
    timeout,            \* the timeout the last request was sent with
    document_queue,     \* table document_queue of DocumentQueueManager: id -> row
    taken,              \* per row of document_queue, the workers that took it and have not yet reported
    direct              \* DirectDocumentProcessor: is_processing and the threads of start_direct_processing

repo == <<queue, next_id, files, processed_dir>>
ctl == <<is_processing, queue_enabled, processing_thread, orphan_threads>>
drivers == <<seq, par, asy>>
env == <<norshin_api_url, norshin_api_key,
        file_size, timeout,
        document_queue, taken,
        direct>>
vars == <<queue, next_id, files, processed_dir, now, is_processing,
          queue_enabled, processing_thread, orphan_threads, requests,
          seq, par, asy, norshin_api_url, norshin_api_key,
          file_size, timeout,
          document_queue, taken,
          direct>>

(***************************************************************************)
(* Local Document Store: the extension of a stored file                    *)
(***************************************************************************)
\* str.lower() on the suffixes of the model
Lower(suffix) == IF suffix = ".PDF" THEN ".pdf" ELSE suffix

\* the words the code looks for in a content-type header
TypeWords(content_type) ==
    CASE content_type = "application/pdf" -> {"pdf"}
      [] content_type = "application/msword" -> {"word"}
      [] content_type = "application/vnd.ms-excel" -> {"excel"}
      [] content_type = "text/plain" -> {"text/plain"}
      [] OTHER -> {}

\* Content-Disposition: whether it has 'filename=', and Path(filename).suffix
NoDisposition == [filename |-> FALSE, suffix |-> ""]
Disposition(suffix) == [filename |-> TRUE, suffix |-> suffix]

\* BackgroundDocumentProcessor._get_file_extension: Path(clean_url).suffix
GetFileExtension(url_suffix) ==
    IF url_suffix = "" THEN ".pdf" ELSE Lower(url_suffix)

\* download_from_json.determine_file_extension; content is what the code
\* tests of the first bytes
DetermineFileExtension(content, content_type, content_disposition, url_suffix) ==
    IF content_disposition.filename /\ content_disposition.suffix # ""
    THEN Lower(content_disposition.suffix)
    ELSE IF content = "%PDF" THEN ".pdf"
    ELSE IF content = "PK word/" THEN ".docx"
    ELSE IF content = "PK xl/" THEN ".xlsx"
    ELSE IF content = "PK ppt/" THEN ".pptx"
    ELSE IF content = "PK" THEN ".zip"
    ELSE IF content = "OLE"
         THEN (IF "word" \in TypeWords(content_type) THEN ".doc"
               ELSE IF "excel" \in TypeWords(content_type) THEN ".xls"
               ELSE ".doc")
    ELSE IF "pdf" \in TypeWords(content_type) THEN ".pdf"
    ELSE IF "word" \in TypeWords(content_type) THEN ".docx"
    ELSE IF "excel" \in TypeWords(content_type) THEN ".xlsx"
    ELSE IF "text/plain" \in TypeWords(content_type) THEN ".txt"
    ELSE IF url_suffix # "" THEN Lower(url_suffix)
    ELSE ".pdf"

\* the documents behind the URLs of the model: the suffix of the URL path and
\* the answer of the server to a download that succeeds
Documents ==
    <<[url_suffix |-> ".PDF", content |-> "%PDF",
       content_type |-> "application/pdf", content_disposition |-> NoDisposition],
      [url_suffix |-> ".aspx", content |-> "%PDF",
       content_type |-> "application/octet-stream", content_disposition |-> NoDisposition],
      [url_suffix |-> "", content |-> "PK word/",
       content_type |-> "application/msword", content_disposition |-> Disposition(".docx")]>>

Document(pair) == Documents[1 + ((pair - 1) % Len(Documents))]

\* the name of the file in queue_documents/, as far as its extension
NoFilename == "None"
Filename(pair) == GetFileExtension(Document(pair).url_suffix)

(***************************************************************************)
(* Rows of document_processing_queue                                       *)
(***************************************************************************)
NewRow(pair, has_path) ==
    [pair |-> pair,
     local_file_path |-> has_path,
     filename |-> IF has_path THEN Filename(pair) ELSE NoFilename,
     status |-> "queued",
     priority |-> DefaultPriority,
     started_at |-> NoTime,
     completed_at |-> NoTime,
     failed_at |-> NoTime,
     processed_data |-> NoData,
     saved_file_path |-> NoPath,
     error_message |-> NoMsg,
     retry_count |-> 0,
     max_retries |-> DefaultMaxRetries]

RowIds == DOMAIN queue
WithStatus(q, s) == {id \in DOMAIN q : q[id].status = s}

RECURSIVE SetToSeq(_)
SetToSeq(S) ==
    IF S = {} THEN <<>>
    ELSE LET m == CHOOSE x \in S : \A y \in S : x <= y
         IN <<m>> \o SetToSeq(S \ {m})

\* Query.filter_by(status=s).all()
QueryAll(q, s) == SetToSeq(WithStatus(q, s))

\* Query.filter_by(contract_notice_id, document_url).first()
First(q, pair) ==
    LET S == {id \in DOMAIN q : q[id].pair = pair}
    IN IF S = {} THEN NoId ELSE CHOOSE x \in S : \A y \in S : x <= y

\* retry_count grows without limit in the program; the model stops at
\* MaxRetryCount, and at MaxRetryCountAlone while the table holds one row.
RetryCountLimit == IF Cardinality(DOMAIN queue) = 1 THEN MaxRetryCountAlone ELSE MaxRetryCount

CanBump(id) == IF id \in RowIds THEN queue[id].retry_count < RetryCountLimit ELSE TRUE

FileExists(pair) == files[pair] # 0

ThreadAlive == processing_thread = "alive"
AliveThreads == orphan_threads + (IF ThreadAlive THEN 1 ELSE 0)

IdleSeq == [pc |-> "idle", docs |-> <<>>, i |-> 0, results |-> <<>>]
IdlePar == [active |-> FALSE, docs |-> <<>>, task |-> <<>>, results |-> <<>>]
IdleAsy == [active |-> FALSE, docs |-> <<>>, task |-> <<>>, results |-> <<>>,
            semaphore |-> SemaphoreLimit]

\* DirectDocumentProcessor(): no thread of start_direct_processing yet
DirectThreads == 1..MaxDirectCalls
IdleDirect == [is_processing |-> FALSE,
               pc |-> [t \in DirectThreads |-> "idle"],
               docs |-> [t \in DirectThreads |-> <<>>],
               i |-> [t \in DirectThreads |-> 0],
               result |-> [t \in DirectThreads |-> "None"]]

Init ==
    /\ queue = <<>>
    /\ next_id = 1
    /\ files = [p \in Pairs |-> 0]
    /\ processed_dir = {}
    /\ now = 0
    /\ is_processing = FALSE
    /\ queue_enabled = TRUE
    /\ processing_thread = "None"
    /\ orphan_threads = 0
    /\ requests = EmptyBag
    /\ seq = IdleSeq
    /\ par = IdlePar
    /\ asy = IdleAsy
    /\ norshin_api_url = TRUE
    /\ norshin_api_key = TRUE
    /\ file_size = 0
    /\ timeout = NoRequest
    /\ document_queue = <<>>
    /\ taken = <<>>
    /\ direct = IdleDirect

(***************************************************************************)
(* Queue controller: BackgroundDocumentProcessor                           *)
(***************************************************************************)
Waiting(op, pair, path) == [op |-> op, pair |-> pair, path |-> path]
Add(req) == requests' = requests (+) SetToBag({req})
Remove(req) == requests' = requests (-) SetToBag({req})
Replace(old, new) == requests' = (requests (-) SetToBag({old})) (+) SetToBag({new})
CanBlock == BagCardinality(requests) < MaxInFlight

\* start_processing up to the point where it decides to launch a thread
StartChecks == queue_enabled /\ ~ThreadAlive

\* start_processing, the launch: is_processing = True; Thread(...).start()
StartLaunch ==
    \E r \in BagToSet(requests) :
        /\ r.op \in {"start_processing", "resume_queue"}
        /\ AliveThreads < MaxAliveThreads
        /\ IF r.op = "resume_queue"
           THEN Replace(r, Waiting("resume_return", 0, FALSE))
           ELSE Remove(r)
        /\ is_processing' = TRUE
        /\ processing_thread' = "alive"
        /\ orphan_threads' = orphan_threads + (IF ThreadAlive THEN 1 ELSE 0)
        /\ UNCHANGED <<repo, now, queue_enabled, drivers, env>>

\* _process_queue on the thread processing_thread refers to: the in-memory
\* processing_queue is never filled, the loop body never runs
ProcessQueue ==
    /\ ThreadAlive
    /\ processing_thread' = "dead"
    /\ is_processing' = FALSE
    /\ UNCHANGED <<repo, now, queue_enabled, orphan_threads, requests, drivers, env>>

\* _process_queue on a thread whose reference was overwritten
ProcessQueueOrphan ==
    /\ orphan_threads > 0
    /\ orphan_threads' = orphan_threads - 1
    /\ is_processing' = FALSE
    /\ UNCHANGED <<repo, now, queue_enabled, processing_thread, requests, drivers, env>>

PauseQueue ==
    /\ queue_enabled' = FALSE
    /\ is_processing' = FALSE
    /\ UNCHANGED <<repo, now, processing_thread, orphan_threads, requests, drivers, env>>

ResumeQueue ==
    /\ queue_enabled' = TRUE
    /\ IF WithStatus(queue, "queued") # {} /\ ~is_processing /\ ~ThreadAlive
       THEN CanBlock /\ Add(Waiting("resume_queue", 0, FALSE))
       ELSE UNCHANGED requests
    /\ UNCHANGED <<repo, now, is_processing, processing_thread, orphan_threads, drivers, env>>

\* resume_queue from the return of start_processing: the message, the return
ResumeReturn ==
    \E r \in BagToSet(requests) :
        /\ r.op = "resume_return"
        /\ Remove(r)
        /\ UNCHANGED <<repo, now, ctl, drivers, env>>


\* a reset that takes every row a driver has started, the completed ones too
ResetProcessingStarted(q) ==
    [id \in DOMAIN q |->
        IF q[id].started_at # NoTime
        THEN [q[id] EXCEPT !.status = "queued", !.started_at = NoTime]
        ELSE q[id]]

\* stop_processing after the join: every row in processing goes back to queued
ResetProcessing(q) ==
    [id \in DOMAIN q |->
        IF q[id].status = "processing"
        THEN [q[id] EXCEPT !.status = "queued", !.started_at = NoTime]
        ELSE q[id]]

\* stop_processing; it waits in join(timeout=5) when the thread is alive
StopProcessing ==
    /\ is_processing' = FALSE
    /\ queue_enabled' = FALSE
    /\ IF ThreadAlive
       THEN /\ CanBlock
            /\ Add(Waiting("stop_processing", 0, FALSE))
            /\ UNCHANGED queue
       ELSE /\ queue' = ResetProcessing(queue)
            /\ UNCHANGED requests
    /\ UNCHANGED <<next_id, files, processed_dir, now, processing_thread,
                   orphan_threads, drivers, env>>

\* stop_processing, from the return of join (thread ended or 5 s passed)
StopProcessingJoined ==
    \E r \in BagToSet(requests) :
        /\ r.op = "stop_processing"
        /\ Remove(r)
        /\ queue' = ResetProcessing(queue)
        /\ UNCHANGED <<next_id, files, processed_dir, now, ctl, drivers, env>>

(***************************************************************************)
(* Enqueue: BackgroundDocumentProcessor.queue_document                     *)
(***************************************************************************)
AlreadyQueued(q, pair) ==
    LET existing == First(q, pair)
    IN existing # NoId /\ q[existing].status \notin {"failed", "completed"}

\* db.session.add(queue_item); commit; then start_processing up to the launch
InsertAndStart(pair, has_path, waiting) ==
    /\ next_id <= MaxRecords
    /\ queue' = queue @@ (next_id :> NewRow(pair, has_path))
    /\ next_id' = next_id + 1
    /\ IF ~is_processing /\ queue_enabled /\ StartChecks
       THEN requests' = (requests (-) waiting)
                            (+) SetToBag({Waiting("start_processing", 0, FALSE)})
       ELSE requests' = requests (-) waiting

\* queue_document up to the download; the file is already there: to the end
QueueDocument(pair) ==
    /\ ~AlreadyQueued(queue, pair)
    /\ CanBlock
    /\ IF FileExists(pair)
       THEN InsertAndStart(pair, TRUE, EmptyBag)
       ELSE Add(Waiting("queue_document", pair, FALSE)) /\ UNCHANGED <<queue, next_id>>
    /\ UNCHANGED <<files, processed_dir, now, ctl, drivers, env>>

\* queue_document when the pair is already queued or processing
QueueDocumentExisting(pair) ==
    /\ AlreadyQueued(queue, pair)
    /\ UNCHANGED vars

\* an enqueue that lets the error of a failed download reach its caller:
\* nothing is inserted
QueueDocumentDownloadedOrRaise(size) ==
    \E r \in BagToSet(requests) :
        /\ r.op = "queue_document"
        /\ files' = IF size = 0 THEN files ELSE [files EXCEPT ![r.pair] = size]
        /\ IF size = 0
           THEN Remove(r) /\ UNCHANGED <<queue, next_id>>
           ELSE InsertAndStart(r.pair, TRUE, SetToBag({r}))
        /\ UNCHANGED <<processed_dir, now, ctl, drivers, env>>

\* queue_document from the answer of requests.get: size 0 is a failed download
QueueDocumentDownloaded(size) ==
    \E r \in BagToSet(requests) :
        /\ r.op = "queue_document"
        /\ files' = IF size = 0 THEN files ELSE [files EXCEPT ![r.pair] = size]
        /\ InsertAndStart(r.pair, size # 0, SetToBag({r}))
        /\ UNCHANGED <<processed_dir, now, ctl, drivers, env>>

(***************************************************************************)
(* Administrative routes                                                   *)
(***************************************************************************)
\* retry_failed_documents
Retriable(q) ==
    {id \in DOMAIN q : q[id].status = "failed" /\ q[id].retry_count < q[id].max_retries}

RetryRow(row) ==
    [row EXCEPT !.status = "queued",
                !.retry_count = @ + 1,
                !.failed_at = NoTime,
                !.error_message = NoMsg]

RetryFailedDocuments ==
    /\ Retriable(queue) # {}
    /\ \A id \in Retriable(queue) : CanBump(id)
    /\ queue' = [id \in DOMAIN queue |->
                    IF id \in Retriable(queue) THEN RetryRow(queue[id]) ELSE queue[id]]
    /\ IF StartChecks
       THEN CanBlock /\ Add(Waiting("start_processing", 0, FALSE))
       ELSE UNCHANGED requests
    /\ UNCHANGED <<next_id, files, processed_dir, now, ctl, drivers, env>>

\* reset_document
ResetRow(row) ==
    [row EXCEPT !.status = "queued",
                !.started_at = NoTime,
                !.retry_count = @ + 1,
                !.error_message = ResetMsg(row.retry_count + 1)]

ResetDocument(doc_id) ==
    /\ doc_id \in RowIds
    /\ CanBump(doc_id)
    /\ queue' = [queue EXCEPT ![doc_id] = ResetRow(@)]
    /\ UNCHANGED <<next_id, files, processed_dir, now, ctl, requests, drivers, env>>

\* get_stuck_documents / reset_all_stuck_documents: started_at < cutoff_time
IsStuck(row, t) ==
    /\ row.status = "processing"
    /\ row.started_at # NoTime
    /\ row.started_at < t - StuckMinutes

StuckDocs(q, t) == {id \in DOMAIN q : IsStuck(q[id], t)}

\* a reset that, like stop_processing, leaves retry_count as it is
AutoResetRowNoRetry(row) ==
    [row EXCEPT !.status = "queued",
                !.started_at = NoTime,
                !.error_message = AutoResetMsg(row.retry_count + 1)]

AutoResetRow(row) ==
    [row EXCEPT !.status = "queued",
                !.started_at = NoTime,
                !.retry_count = @ + 1,
                !.error_message = AutoResetMsg(row.retry_count + 1)]

ResetAllStuckDocuments ==
    /\ StuckDocs(queue, now) # {}
    /\ \A id \in StuckDocs(queue, now) : CanBump(id)
    /\ queue' = [id \in DOMAIN queue |->
                    IF id \in StuckDocs(queue, now)
                    THEN AutoResetRow(queue[id]) ELSE queue[id]]
    /\ UNCHANGED <<next_id, files, processed_dir, now, ctl, requests, drivers, env>>

\* queue_documents_for_processing up to its first queue_document call:
\* DocumentProcessingQueue.query.delete() and rmtree of both folders
QueueReset ==
    /\ queue # <<>>
    /\ queue' = <<>>
    /\ files' = [p \in Pairs |-> 0]
    /\ processed_dir' = {}
    /\ UNCHANGED <<next_id, now, ctl, requests, drivers, env>>

\* process_test_async: the completed rows are deleted, then the async driver
\* is started on a thread of its own when a row is queued
ProcessTestAsync ==
    /\ queue' = [id \in (DOMAIN queue) \ WithStatus(queue, "completed") |-> queue[id]]
    /\ IF WithStatus(queue, "queued") # {}
       THEN CanBlock /\ Add(Waiting("process_in_background", 0, FALSE))
       ELSE UNCHANGED requests
    /\ UNCHANGED <<next_id, files, processed_dir, now, ctl, drivers, env>>

\* the clock
Tick ==
    /\ now + TickMinutes <= MaxClock
    /\ now' = now + TickMinutes
    /\ UNCHANGED <<repo, ctl, requests, drivers, env>>


(***************************************************************************)
(* GET /documents/queue/status                                             *)
(***************************************************************************)
\* func.count(id) of one group of GROUP BY status
RECURSIVE CountRows(_, _)
CountRows(ids, status) ==
    IF ids = <<>> THEN 0
    ELSE (IF queue[Head(ids)].status = status THEN 1 ELSE 0) + CountRows(Tail(ids), status)

\* counts = {status: count for status, count in status_counts}
StatusCounts ==
    [status \in {queue[id].status : id \in DOMAIN queue} |->
        CountRows(SetToSeq(DOMAIN queue), status)]

\* counts.get(status, 0)
CountsGet(status) ==
    IF status \in DOMAIN StatusCounts THEN StatusCounts[status] ELSE 0

\* sum(counts.values())
RECURSIVE SumCounts(_)
SumCounts(groups) ==
    IF groups = {} THEN 0
    ELSE LET g == CHOOSE x \in groups : TRUE
         IN StatusCounts[g] + SumCounts(groups \ {g})

\* BackgroundDocumentProcessor.get_queue_status: the in-memory list
\* processing_queue, which is always empty, and the flag is_processing
MemoryStatus ==
    [queued |-> 0, processing |-> 0, completed |-> 0, failed |-> 0,
     total |-> 0, is_processing |-> is_processing]

\* the dictionary queue_status of the route
QueueStatus ==
    [queued |-> CountsGet("queued"),
     processing |-> CountsGet("processing"),
     completed |-> CountsGet("completed"),
     failed |-> CountsGet("failed"),
     total |-> SumCounts(DOMAIN StatusCounts),
     is_processing |-> CountsGet("processing") > 0]

\* the route: it reads and answers
GetQueueStatus ==
    /\ QueueStatus.total >= 0
    /\ UNCHANGED vars

\* the web process ends and is started again: the module-level
\* background_processor is built anew, every run and request is gone
Restart ==
    /\ is_processing' = FALSE
    /\ queue_enabled' = TRUE
    /\ processing_thread' = "None"
    /\ orphan_threads' = 0
    /\ requests' = EmptyBag
    /\ seq' = IdleSeq
    /\ par' = IdlePar
    /\ asy' = IdleAsy
    /\ UNCHANGED <<repo, now, env>>

(***************************************************************************)
(* Write-backs of the drivers: UPDATE ... WHERE id = :doc_id, and the ORM   *)
(* equivalents guarded by "if db_doc"                                      *)
(***************************************************************************)
SetProcessing(q, id, t) ==
    IF id \in DOMAIN q
    THEN [q EXCEPT ![id].status = "processing", ![id].started_at = t]
    ELSE q

SetCompleted(q, id, t, payload, saved) ==
    IF id \in DOMAIN q
    THEN [q EXCEPT ![id].status = "completed",
                   ![id].completed_at = t,
                   ![id].processed_data = Dumps(payload),
                   ![id].saved_file_path = saved]
    ELSE q

\* a write-back that leaves a row alone once it is completed
SetCompletedOnce(q, id, t, payload) ==
    IF id \in DOMAIN q /\ q[id].status # "completed"
    THEN [q EXCEPT ![id].status = "completed",
                   ![id].completed_at = t,
                   ![id].processed_data = Dumps(payload)]
    ELSE q

\* a write-back that is kept in memory until the batch has ended
SetCompletedDeferred(q, id, t, payload) == q

\* the async driver leaves saved_file_path alone
SetCompletedAsync(q, id, t, payload) ==
    IF id \in DOMAIN q
    THEN [q EXCEPT ![id].status = "completed",
                   ![id].completed_at = t,
                   ![id].processed_data = Dumps(payload)]
    ELSE q

SetFailedAsError(q, id, t, msg) ==
    IF id \in DOMAIN q
    THEN [q EXCEPT ![id].status = "error",
                   ![id].failed_at = t,
                   ![id].error_message = msg,
                   ![id].retry_count = @ + 1]
    ELSE q

SetFailed(q, id, t, msg) ==
    IF id \in DOMAIN q
    THEN [q EXCEPT ![id].status = "failed",
                   ![id].failed_at = t,
                   ![id].error_message = msg,
                   ![id].retry_count = @ + 1]
    ELSE q

Result(id, success) == [id |-> id, success |-> success]

(***************************************************************************)
(* docs_with_size.sort(key=lambda x: x[1]): stable, ascending size         *)
(***************************************************************************)
RECURSIVE InsertBySize(_, _)
InsertBySize(sorted, d) ==
    IF sorted = <<>> THEN <<d>>
    ELSE IF Head(sorted).size <= d.size
         THEN <<Head(sorted)>> \o InsertBySize(Tail(sorted), d)
         ELSE <<d>> \o sorted

RECURSIVE SortBySize(_)
SortBySize(docs) ==
    IF docs = <<>> THEN <<>>
    ELSE InsertBySize(SortBySize(SubSeq(docs, 1, Len(docs) - 1)), docs[Len(docs)])

\* the queued rows whose local file exists, with the size of the file
DocsWithSize(q, f) ==
    LET ids == QueryAll(q, "queued")
        kept == SelectSeq(ids, LAMBDA id : q[id].local_file_path /\ f[q[id].pair] # 0)
    IN [k \in 1..Len(kept) |->
           [id |-> kept[k], pair |-> q[kept[k]].pair, size |-> f[q[kept[k]].pair]]]

\* the batch of the sequential and the thread-pool driver
SortedBatch(q, f) == SortBySize(DocsWithSize(q, f))

\* the batch of the async driver: every queued row, in query order
AsyncBatch(q) ==
    LET ids == QueryAll(q, "queued")
    IN [k \in 1..Len(ids) |->
           [id |-> ids[k], pair |-> q[ids[k]].pair,
            local_file_path |-> q[ids[k]].local_file_path]]

(***************************************************************************)
(* SequentialDocumentProcessor (route process_parallel)                    *)
(***************************************************************************)
\* __init__ and process_all_queued_documents up to the loop
SeqStart ==
    /\ seq.pc = "idle"
    /\ norshin_api_key /\ norshin_api_url
    /\ WithStatus(queue, "queued") # {}
    /\ LET docs == SortedBatch(queue, files)
       IN seq' = IF docs = <<>>
                 THEN [seq EXCEPT !.pc = "done"]
                 ELSE [pc |-> "next", docs |-> docs, i |-> 1, results |-> <<>>]
    /\ UNCHANGED <<repo, now, ctl, requests, par, asy, env>>

\* a claim of every document that is left in the batch
SeqClaimAll ==
    /\ seq.pc = "next"
    /\ queue' = [id \in DOMAIN queue |->
                    IF \E k \in seq.i..Len(seq.docs) : seq.docs[k].id = id
                    THEN [queue[id] EXCEPT !.status = "processing", !.started_at = now]
                    ELSE queue[id]]
    /\ seq' = [seq EXCEPT !.pc = "claimed"]
    /\ UNCHANGED <<next_id, files, processed_dir, now, ctl, requests, par, asy, env>>

\* _process_single_document: UPDATE ... SET status = 'processing'
SeqClaim ==
    /\ seq.pc = "next"
    /\ queue' = SetProcessing(queue, seq.docs[seq.i].id, now)
    /\ seq' = [seq EXCEPT !.pc = "claimed"]
    /\ UNCHANGED <<next_id, files, processed_dir, now, ctl, requests, par, asy, env>>

\* a loop that a failed document ends
SeqAdvanceUntilFailure(result) ==
    [seq EXCEPT !.pc = IF seq.i < Len(seq.docs) /\ result.success THEN "next" ELSE "done",
                !.i = IF seq.i < Len(seq.docs) /\ result.success THEN @ + 1 ELSE @,
                !.results = Append(@, result)]

\* one document done: results.append(result), then the delay or the end
SeqAdvance(result) ==
    [seq EXCEPT !.pc = IF seq.i < Len(seq.docs) THEN "next" ELSE "done",
                !.i = IF seq.i < Len(seq.docs) THEN @ + 1 ELSE @,
                !.results = Append(@, result)]

\* _process_single_document: the file check, then requests.post
SeqSend ==
    /\ seq.pc = "claimed"
    /\ LET doc == seq.docs[seq.i]
       IN IF FileExists(doc.pair)
          THEN /\ seq' = [seq EXCEPT !.pc = "posting"]
               /\ UNCHANGED queue
          ELSE /\ CanBump(doc.id)
               /\ queue' = SetFailed(queue, doc.id, now, SeqFileNotFound)
               /\ seq' = SeqAdvance(Result(doc.id, FALSE))
    /\ UNCHANGED <<next_id, files, processed_dir, now, ctl, requests, par, asy, env>>

\* _process_single_document from the answer of requests.post
SeqRespond(code, payload) ==
    /\ seq.pc = "posting"
    /\ LET doc == seq.docs[seq.i]
       IN IF code = 200
          THEN /\ processed_dir' = processed_dir \cup
                      {<<"result", doc.pair>>, <<"notification", doc.pair>>}
               /\ queue' = SetCompleted(queue, doc.id, now, payload, ResultPath)
               /\ seq' = SeqAdvance(Result(doc.id, TRUE))
          ELSE /\ CanBump(doc.id)
               /\ queue' = SetFailed(queue, doc.id, now,
                                     IF code = TimeoutExc THEN SeqException(code)
                                                          ELSE SeqApiError(code))
               /\ seq' = SeqAdvance(Result(doc.id, FALSE))
               /\ UNCHANGED processed_dir
    /\ UNCHANGED <<next_id, files, now, ctl, requests, par, asy, env>>

\* process_all_queued_documents returns its summary
SeqReturn ==
    /\ seq.pc = "done"
    /\ seq' = IdleSeq
    /\ UNCHANGED <<repo, now, ctl, requests, par, asy, env>>


(***************************************************************************)
(* ParallelDocumentProcessor: ThreadPoolExecutor(max_workers)              *)
(***************************************************************************)
Running(task, states) == {k \in DOMAIN task : task[k] \in states}
AllDone(task) == \A k \in DOMAIN task : task[k] = "done"
\* tasks are picked up in the order they were submitted / created
IsNextTask(task, k, fresh) == task[k] = fresh /\ \A j \in 1..(k - 1) : task[j] # fresh

\* __init__ and process_all_queued_documents up to the last executor.submit
ParStart ==
    /\ ~par.active
    /\ norshin_api_key /\ norshin_api_url
    /\ WithStatus(queue, "queued") # {}
    /\ LET docs == SortedBatch(queue, files)
       IN par' = [active |-> TRUE, docs |-> docs,
                  task |-> [k \in 1..Len(docs) |-> "submitted"],
                  results |-> <<>>]
    /\ UNCHANGED <<repo, now, ctl, requests, seq, asy, env>>

\* a free worker takes the next future: UPDATE ... SET status = 'processing'
ParClaim(k) ==
    /\ par.active
    /\ k \in DOMAIN par.task
    /\ IsNextTask(par.task, k, "submitted")
    /\ Cardinality(Running(par.task, {"claimed", "posting"})) < MaxWorkers
    /\ queue' = SetProcessing(queue, par.docs[k].id, now)
    /\ par' = [par EXCEPT !.task[k] = "claimed"]
    /\ UNCHANGED <<next_id, files, processed_dir, now, ctl, requests, seq, asy, env>>

\* the failure paths of a worker assign to doc, an object of the session of
\* the main thread, and commit the session of their own application context,
\* which holds no change: nothing is written to the row
SetFailedDetached(q, id, t, msg) == q

ParFinish(k, result) ==
    [par EXCEPT !.task[k] = "done", !.results = Append(@, result)]

\* _process_single_document: the file check, then requests.post
ParSend(k) ==
    /\ par.active
    /\ k \in DOMAIN par.task
    /\ par.task[k] = "claimed"
    /\ LET doc == par.docs[k]
       IN IF FileExists(doc.pair)
          THEN /\ par' = [par EXCEPT !.task[k] = "posting"]
               /\ UNCHANGED queue
          ELSE /\ queue' = SetFailedDetached(queue, doc.id, now, ParFileNotFound)
               /\ par' = ParFinish(k, Result(doc.id, FALSE))
    /\ UNCHANGED <<next_id, files, processed_dir, now, ctl, requests, seq, asy, env>>

\* _move_to_processed_folder: copy2 and the metadata file; "" when it fails
MovedPath(pair) == IF FileExists(pair) THEN CopyPath ELSE EmptyPath
MovedFiles(pair) ==
    IF FileExists(pair) THEN {<<"copy", pair>>, <<"metadata", pair>>} ELSE {}

\* _process_single_document from the answer of requests.post
ParRespond(k, code, payload) ==
    /\ par.active
    /\ k \in DOMAIN par.task
    /\ par.task[k] = "posting"
    /\ LET doc == par.docs[k]
       IN IF code = 200
          THEN /\ processed_dir' = processed_dir \cup MovedFiles(doc.pair)
               /\ queue' = SetCompleted(queue, doc.id, now, payload, MovedPath(doc.pair))
               /\ par' = ParFinish(k, Result(doc.id, TRUE))
          ELSE /\ queue' = SetFailedDetached(queue, doc.id, now,
                                     IF code = TimeoutExc THEN ParTimeout
                                                          ELSE ParApiError(code))
               /\ par' = ParFinish(k, Result(doc.id, FALSE))
               /\ UNCHANGED processed_dir
    /\ UNCHANGED <<next_id, files, now, ctl, requests, seq, asy, env>>

\* every future is done: process_all_queued_documents returns its summary
ParReturn ==
    /\ par.active
    /\ AllDone(par.task)
    /\ par' = IdlePar
    /\ UNCHANGED <<repo, now, ctl, requests, seq, asy, env>>

(***************************************************************************)
(* AsyncDocumentProcessor (routes process_async, process_test_async)       *)
(***************************************************************************)
\* a claim of the batch that sets the status and leaves started_at alone
MarkAllProcessingUnstamped(q, t) ==
    [id \in DOMAIN q |->
        IF q[id].status = "queued"
        THEN [q[id] EXCEPT !.status = "processing"]
        ELSE q[id]]

MarkAllProcessing(q, t) ==
    [id \in DOMAIN q |->
        IF q[id].status = "queued"
        THEN [q[id] EXCEPT !.status = "processing", !.started_at = t]
        ELSE q[id]]

\* process_all_queued_documents up to asyncio.gather
AsyncStart ==
    /\ ~asy.active
    /\ WithStatus(queue, "queued") # {}
    /\ LET docs == AsyncBatch(queue)
       IN asy' = [active |-> TRUE, docs |-> docs,
                  task |-> [k \in 1..Len(docs) |-> "created"],
                  results |-> [k \in 1..Len(docs) |-> "pending"],
                  semaphore |-> asy.semaphore]
    /\ queue' = MarkAllProcessing(queue, now)
    /\ UNCHANGED <<next_id, files, processed_dir, now, ctl, requests, seq, par, env>>

\* process_in_background, the thread of process_test_async: the same call
ProcessInBackground ==
    \E r \in BagToSet(requests) :
        /\ r.op = "process_in_background"
        /\ ~asy.active
        /\ Remove(r)
        /\ IF WithStatus(queue, "queued") # {}
           THEN LET docs == AsyncBatch(queue)
                IN asy' = [active |-> TRUE, docs |-> docs,
                           task |-> [k \in 1..Len(docs) |-> "created"],
                           results |-> [k \in 1..Len(docs) |-> "pending"],
                           semaphore |-> asy.semaphore]
           ELSE UNCHANGED asy
        /\ queue' = MarkAllProcessing(queue, now)
        /\ UNCHANGED <<next_id, files, processed_dir, now, ctl, seq, par, env>>

\* the task leaves "async with self.semaphore" with its return value
AsyncFinish(k, value, acquired) ==
    [asy EXCEPT !.task[k] = "done",
                !.results[k] = value,
                !.semaphore = IF acquired THEN @ + 1 ELSE @]

\* a task that goes to its post without entering the semaphore
AsyncSendUnbounded(k) ==
    /\ asy.active
    /\ k \in DOMAIN asy.task
    /\ IsNextTask(asy.task, k, "created")
    /\ LET doc == asy.docs[k]
       IN IF ~doc.local_file_path \/ ~FileExists(doc.pair)
          THEN /\ CanBump(doc.id)
               /\ queue' = SetFailed(queue, doc.id, now, AsyncFileNotFound)
               /\ asy' = AsyncFinish(k, "None", FALSE)
          ELSE IF ~norshin_api_url
          THEN /\ CanBump(doc.id)
               /\ queue' = SetFailed(queue, doc.id, now, AsyncNotConfigured)
               /\ asy' = AsyncFinish(k, "None", FALSE)
          ELSE /\ asy' = [asy EXCEPT !.task[k] = "posting", !.semaphore = @ - 1]
               /\ UNCHANGED queue
    /\ UNCHANGED <<next_id, files, processed_dir, now, ctl, requests, seq, par, env>>

\* _process_document_async up to session.post
AsyncSend(k) ==
    /\ asy.active
    /\ k \in DOMAIN asy.task
    /\ IsNextTask(asy.task, k, "created")
    /\ asy.semaphore > 0
    /\ LET doc == asy.docs[k]
       IN IF ~doc.local_file_path \/ ~FileExists(doc.pair)
          THEN /\ CanBump(doc.id)
               /\ queue' = SetFailed(queue, doc.id, now, AsyncFileNotFound)
               /\ asy' = AsyncFinish(k, "None", FALSE)
          ELSE IF ~norshin_api_url
          THEN /\ CanBump(doc.id)
               /\ queue' = SetFailed(queue, doc.id, now, AsyncNotConfigured)
               /\ asy' = AsyncFinish(k, "None", FALSE)
          ELSE /\ asy' = [asy EXCEPT !.task[k] = "posting", !.semaphore = @ - 1]
               /\ UNCHANGED queue
    /\ UNCHANGED <<next_id, files, processed_dir, now, ctl, requests, seq, par, env>>

\* the tasks of asyncio.gather share one event loop: a task that can enter the
\* semaphore runs up to its first await, the one inside session.post, before
\* the loop polls the network for an answer
AllStarted(a) == \A j \in DOMAIN a.task : a.task[j] = "created" => a.semaphore = 0

\* _process_document_async from the answer of session.post
AsyncRespond(k, code, payload) ==
    /\ asy.active
    /\ k \in DOMAIN asy.task
    /\ asy.task[k] = "posting"
    /\ AllStarted(asy)
    /\ LET doc == asy.docs[k]
       IN IF code = 200
          THEN /\ queue' = SetCompletedAsync(queue, doc.id, now, payload)
               /\ asy' = AsyncFinish(k, "result", TRUE)
          ELSE /\ CanBump(doc.id)
               /\ queue' = SetFailed(queue, doc.id, now,
                                IF code = 504 THEN AsyncGatewayTimeout
                                ELSE IF code = TimeoutExc THEN AsyncException(code)
                                ELSE AsyncApiError(code))
               /\ asy' = AsyncFinish(k, "None", TRUE)
    /\ UNCHANGED <<next_id, files, processed_dir, now, ctl, requests, seq, par, env>>

\* asyncio.gather returns: process_all_queued_documents ends
AsyncReturn ==
    /\ asy.active
    /\ AllDone(asy.task)
    /\ asy' = [IdleAsy EXCEPT !.semaphore = asy.semaphore]
    /\ UNCHANGED <<repo, now, ctl, requests, seq, par, env>>

(***************************************************************************)
(* The timeout of one request, for a file of file_size bytes               *)
(***************************************************************************)
SeqPost ==
    /\ timeout' = Request("sequential", SeqTimeout(file_size))
    /\ UNCHANGED <<repo, now, ctl, requests, drivers, norshin_api_url,
                   norshin_api_key, file_size, document_queue, taken, direct>>

ParPost ==
    /\ timeout' = Request("parallel", ParRequestTimeout(file_size))
    /\ UNCHANGED <<repo, now, ctl, requests, drivers, norshin_api_url,
                   norshin_api_key, file_size, document_queue, taken, direct>>

AsyncPost ==
    /\ timeout' = Request("async", AsyncClientTimeout(file_size))
    /\ UNCHANGED <<repo, now, ctl, requests, drivers, norshin_api_url,
                   norshin_api_key, file_size, document_queue, taken, direct>>

(***************************************************************************)
(* DocumentQueueManager and its table document_queue                       *)
(***************************************************************************)
StaleMsg == Msg("Processing timeout - marking as failed for retry", 0)
WorkerMsg == Msg("{error_message}", 0)

\* DocumentQueue(contract_notice_id, document_url, document_filename, priority)
NewQueueItem(pair, priority) ==
    [pair |-> pair,
     status |-> "pending",
     priority |-> priority,
     norshin_request_sent_at |-> NoTime,
     processed_data |-> NoData,
     error_message |-> NoMsg,
     retry_count |-> 0,
     max_retries |-> DefaultMaxRetries]

\* add_document_to_queue: a pair that has a row, of any status, gets no other
AddDocumentToQueue(pair, priority) ==
    /\ Len(document_queue) < MaxManaged
    /\ \A id \in DOMAIN document_queue : document_queue[id].pair # pair
    /\ document_queue' = Append(document_queue, NewQueueItem(pair, priority))
    /\ taken' = Append(taken, 0)
    /\ UNCHANGED <<repo, now, ctl, requests, drivers, norshin_api_url,
                   norshin_api_key, file_size, timeout, direct>>

\* get_next_pending_document: ORDER BY priority DESC, created_at ASC, first()
GetNextPendingDocument(q) ==
    LET pending == {id \in DOMAIN q : q[id].status = "pending"}
    IN IF pending = {} THEN NoId
       ELSE CHOOSE id \in pending :
               \A other \in pending :
                   \/ q[id].priority > q[other].priority
                   \/ q[id].priority = q[other].priority /\ id <= other

\* a worker takes the next pending record: mark_processing
MarkProcessing ==
    LET id == GetNextPendingDocument(document_queue)
    IN /\ id # NoId
       /\ taken[id] < MaxTaken
       /\ document_queue' = [document_queue EXCEPT
                                ![id].status = "processing",
                                ![id].norshin_request_sent_at = now]
       /\ taken' = [taken EXCEPT ![id] = @ + 1]
       /\ UNCHANGED <<repo, now, ctl, requests, drivers, norshin_api_url,
                      norshin_api_key, file_size, timeout, direct>>

\* mark_completed, by a worker that took the record
MarkCompleted(id, payload) ==
    /\ id \in DOMAIN document_queue
    /\ taken[id] > 0
    /\ document_queue' = [document_queue EXCEPT
                             ![id].status = "completed",
                             ![id].processed_data = Dumps(payload)]
    /\ taken' = [taken EXCEPT ![id] = @ - 1]
    /\ UNCHANGED <<repo, now, ctl, requests, drivers, norshin_api_url,
                   norshin_api_key, file_size, timeout, direct>>

\* the row after mark_failed(queue_item, error_message, retry)
MarkFailedItem(item, error_message, retry) ==
    [item EXCEPT !.retry_count = @ + 1,
                 !.error_message = error_message,
                 !.status = IF retry /\ item.retry_count + 1 < item.max_retries
                            THEN "pending" ELSE "failed"]

\* mark_failed, by a worker that took the record
MarkFailed(id, retry) ==
    /\ id \in DOMAIN document_queue
    /\ taken[id] > 0
    /\ document_queue[id].retry_count < MaxManagedRetryCount
    /\ document_queue' = [document_queue EXCEPT
                             ![id] = MarkFailedItem(@, WorkerMsg, retry)]
    /\ taken' = [taken EXCEPT ![id] = @ - 1]
    /\ UNCHANGED <<repo, now, ctl, requests, drivers, norshin_api_url,
                   norshin_api_key, file_size, timeout, direct>>

\* the rows cleanup_stale_processing selects
StaleItems(q, t) ==
    {id \in DOMAIN q :
        /\ q[id].status = "processing"
        /\ q[id].norshin_request_sent_at # NoTime
        /\ q[id].norshin_request_sent_at < t - ProcessingTimeoutMinutes}

\* cleanup_stale_processing: mark_failed(item, ..., retry=True) for each
CleanupStaleProcessing ==
    /\ StaleItems(document_queue, now) # {}
    /\ \A id \in StaleItems(document_queue, now) :
          document_queue[id].retry_count < MaxManagedRetryCount
    /\ document_queue' = [id \in DOMAIN document_queue |->
                             IF id \in StaleItems(document_queue, now)
                             THEN MarkFailedItem(document_queue[id], StaleMsg, TRUE)
                             ELSE document_queue[id]]
    /\ UNCHANGED <<repo, now, ctl, requests, drivers, norshin_api_url,
                   norshin_api_key, file_size, timeout, taken, direct>>

(***************************************************************************)
(* DirectDocumentProcessor (route process_documents_direct)                *)
(***************************************************************************)
DirectUnchanged == <<next_id, files, now, ctl, requests, drivers, norshin_api_url,
                     norshin_api_key, file_size, timeout, document_queue, taken>>

\* start_direct_processing: thread.start()
StartDirectProcessing(t) ==
    /\ direct.pc[t] = "idle"
    /\ direct' = [direct EXCEPT !.pc[t] = "started", !.result[t] = "None"]
    /\ UNCHANGED <<queue, processed_dir, DirectUnchanged>>

\* process_all_queued_documents: if self.is_processing: return the error
DirectCheck(t) ==
    /\ direct.pc[t] = "started"
    /\ direct' = IF direct.is_processing
                 THEN [direct EXCEPT !.pc[t] = "idle", !.result[t] = "in progress"]
                 ELSE [direct EXCEPT !.pc[t] = "checked"]
    /\ UNCHANGED <<queue, processed_dir, DirectUnchanged>>

\* self.is_processing = True
DirectSet(t) ==
    /\ direct.pc[t] = "checked"
    /\ direct' = [direct EXCEPT !.is_processing = TRUE, !.pc[t] = "set"]
    /\ UNCHANGED <<queue, processed_dir, DirectUnchanged>>

\* the query of the queued rows; with none the call returns through finally
DirectQuery(t) ==
    /\ direct.pc[t] = "set"
    /\ LET ids == QueryAll(queue, "queued")
       IN direct' = IF ids = <<>>
                    THEN [direct EXCEPT !.is_processing = FALSE, !.pc[t] = "idle",
                                        !.result[t] = "no work"]
                    ELSE [direct EXCEPT !.pc[t] = "batch", !.docs[t] = ids, !.i[t] = 1]
    /\ UNCHANGED <<queue, processed_dir, DirectUnchanged>>

\* process_single_document: its assignments go to doc, an object of the
\* session of process_all_queued_documents, and its commits to the session of
\* its own application context, so the row is not written; on success
\* (the file is there, text was extracted) the analysis file is
DirectProcessSingle(t, success) ==
    /\ direct.pc[t] = "batch"
    /\ LET id == direct.docs[t][direct.i[t]]
           pair == IF id \in DOMAIN queue THEN queue[id].pair ELSE 1
       IN /\ success => (id \in DOMAIN queue /\ FileExists(pair))
          /\ processed_dir' = IF success
                              THEN processed_dir \cup {<<"analysis", pair>>}
                              ELSE processed_dir
    /\ direct' = IF direct.i[t] < Len(direct.docs[t])
                 THEN [direct EXCEPT !.i[t] = @ + 1]
                 ELSE [direct EXCEPT !.pc[t] = "ending", !.result[t] = "completed"]
    /\ UNCHANGED <<queue, DirectUnchanged>>

\* an exception in the loop: except Exception returns the error
DirectRaise(t) ==
    /\ direct.pc[t] = "batch"
    /\ direct' = [direct EXCEPT !.pc[t] = "ending", !.result[t] = "error"]
    /\ UNCHANGED <<queue, processed_dir, DirectUnchanged>>

\* finally: self.is_processing = False
DirectFinally(t) ==
    /\ direct.pc[t] = "ending"
    /\ direct' = [direct EXCEPT !.is_processing = FALSE, !.pc[t] = "idle",
                                !.docs[t] = <<>>, !.i[t] = 0]
    /\ UNCHANGED <<queue, processed_dir, DirectUnchanged>>

(***************************************************************************)
(* The whole system                                                        *)
(***************************************************************************)
Next ==
    \/ StartLaunch
    \/ ProcessQueue
    \/ ProcessQueueOrphan
    \/ PauseQueue
    \/ ResumeQueue
    \/ ResumeReturn
    \/ StopProcessing
    \/ StopProcessingJoined
    \/ \E pair \in Pairs : QueueDocument(pair)
    \/ \E size \in 0..MaxSize : QueueDocumentDownloaded(size)
    \/ RetryFailedDocuments
    \/ \E doc_id \in Ids : ResetDocument(doc_id)
    \/ ResetAllStuckDocuments
    \/ QueueReset
    \/ Tick
    \/ GetQueueStatus
    \/ Restart
    \/ ProcessTestAsync
    \/ ProcessInBackground
    \/ SeqStart
    \/ SeqClaim
    \/ SeqSend
    \/ \E code \in Outcomes, payload \in Payloads : SeqRespond(code, payload)
    \/ SeqReturn
    \/ ParStart
    \/ \E k \in Ids : ParClaim(k)
    \/ \E k \in Ids : ParSend(k)
    \/ \E k \in Ids, code \in Outcomes, payload \in Payloads : ParRespond(k, code, payload)
    \/ ParReturn
    \/ AsyncStart
    \/ \E k \in Ids : AsyncSend(k)
    \/ \E k \in Ids, code \in Outcomes, payload \in Payloads : AsyncRespond(k, code, payload)
    \/ AsyncReturn
    \/ SeqPost
    \/ ParPost
    \/ AsyncPost
    \/ \E pair \in Pairs, priority \in 0..MaxPriority : AddDocumentToQueue(pair, priority)
    \/ MarkProcessing
    \/ \E id \in 1..MaxManaged, payload \in Payloads : MarkCompleted(id, payload)
    \/ \E id \in 1..MaxManaged, retry \in BOOLEAN : MarkFailed(id, retry)
    \/ CleanupStaleProcessing
    \/ \E t \in DirectThreads : StartDirectProcessing(t)
    \/ \E t \in DirectThreads : DirectCheck(t)
    \/ \E t \in DirectThreads : DirectSet(t)
    \/ \E t \in DirectThreads : DirectQuery(t)
    \/ \E t \in DirectThreads, success \in BOOLEAN : DirectProcessSingle(t, success)
    \/ \E t \in DirectThreads : DirectRaise(t)
    \/ \E t \in DirectThreads : DirectFinally(t)

Spec == Init /\ [][Next]_vars


(***************************************************************************)
(* Driver runs over a queue that enqueue calls have filled: up to          *)
(* RunRecords queued rows; a row has no local_file_path when its download  *)
(* failed, and rows of one pair share the file of the pair.                *)
(***************************************************************************)
InitRun ==
    /\ \E n \in 1..RunRecords :
       \E pr \in [1..n -> Pairs], hp \in [1..n -> BOOLEAN], fs \in [Pairs -> 0..MaxSize] :
          /\ \A i \in 1..n : hp[i] => fs[pr[i]] # 0
          /\ \A p \in Pairs : fs[p] # 0 => \E i \in 1..n : pr[i] = p
          /\ queue = [i \in 1..n |-> NewRow(pr[i], hp[i])]
          /\ next_id = n + 1
          /\ files = fs
    /\ processed_dir = {}
    /\ now = 0
    /\ is_processing = FALSE
    /\ queue_enabled = TRUE
    /\ processing_thread = "None"
    /\ orphan_threads = 0
    /\ requests = EmptyBag
    /\ seq = IdleSeq
    /\ par = IdlePar
    /\ asy = IdleAsy
    /\ norshin_api_url = TRUE
    /\ norshin_api_key = TRUE
    /\ file_size = 0
    /\ timeout = NoRequest
    /\ document_queue = <<>>
    /\ taken = <<>>
    /\ direct = IdleDirect

\* the same with every download done: row i is document 1 + (i-1) mod MaxPairs
\* of the contract, and the file of document p is p bytes long
InitQueued ==
    /\ \E n \in 1..RunRecords :
          /\ queue = [i \in 1..n |-> NewRow(1 + ((i - 1) % MaxPairs), TRUE)]
          /\ next_id = n + 1
          /\ files = [p \in Pairs |-> IF p <= n THEN 1 + ((p - 1) % MaxSize) ELSE 0]
    /\ processed_dir = {}
    /\ now = 0
    /\ is_processing = FALSE
    /\ queue_enabled = TRUE
    /\ processing_thread = "None"
    /\ orphan_threads = 0
    /\ requests = EmptyBag
    /\ seq = IdleSeq
    /\ par = IdlePar
    /\ asy = IdleAsy
    /\ norshin_api_url = TRUE
    /\ norshin_api_key = TRUE
    /\ file_size = 0
    /\ timeout = NoRequest
    /\ document_queue = <<>>
    /\ taken = <<>>
    /\ direct = IdleDirect

\* the queue of InitQueued in a process whose environment may lack
\* NORSHIN_API_URL or NORSHIN_API_KEY
InitConfig ==
    /\ \E n \in 1..RunRecords :
          /\ queue = [i \in 1..n |-> NewRow(1 + ((i - 1) % MaxPairs), TRUE)]
          /\ next_id = n + 1
          /\ files = [p \in Pairs |-> IF p <= n THEN 1 + ((p - 1) % MaxSize) ELSE 0]
    /\ processed_dir = {}
    /\ now = 0
    /\ is_processing = FALSE
    /\ queue_enabled = TRUE
    /\ processing_thread = "None"
    /\ orphan_threads = 0
    /\ requests = EmptyBag
    /\ seq = IdleSeq
    /\ par = IdlePar
    /\ asy = IdleAsy
    /\ norshin_api_url \in BOOLEAN
    /\ norshin_api_key \in BOOLEAN
    /\ file_size = 0
    /\ timeout = NoRequest
    /\ document_queue = <<>>
    /\ taken = <<>>
    /\ direct = IdleDirect

\* a queue of up to MaxBatch records, every download done
InitBatch ==
    /\ \E n \in 1..MaxBatch :
          /\ queue = [i \in 1..n |-> NewRow(1 + ((i - 1) % MaxPairs), TRUE)]
          /\ next_id = n + 1
          /\ files = [p \in Pairs |-> IF p <= n THEN 1 + ((p - 1) % MaxSize) ELSE 0]
    /\ processed_dir = {}
    /\ now = 0
    /\ is_processing = FALSE
    /\ queue_enabled = TRUE
    /\ processing_thread = "None"
    /\ orphan_threads = 0
    /\ requests = EmptyBag
    /\ seq = IdleSeq
    /\ par = IdlePar
    /\ asy = IdleAsy
    /\ norshin_api_url = TRUE
    /\ norshin_api_key = TRUE
    /\ file_size = 0
    /\ timeout = NoRequest
    /\ document_queue = <<>>
    /\ taken = <<>>
    /\ direct = IdleDirect

\* an empty queue and a file of any of the sizes, about to be posted
InitTimeout ==
    /\ queue = <<>>
    /\ next_id = 1
    /\ files = [p \in Pairs |-> 0]
    /\ processed_dir = {}
    /\ now = 0
    /\ is_processing = FALSE
    /\ queue_enabled = TRUE
    /\ processing_thread = "None"
    /\ orphan_threads = 0
    /\ requests = EmptyBag
    /\ seq = IdleSeq
    /\ par = IdlePar
    /\ asy = IdleAsy
    /\ norshin_api_url = TRUE
    /\ norshin_api_key = TRUE
    /\ file_size \in FileSizes
    /\ timeout = NoRequest
    /\ document_queue = <<>>
    /\ taken = <<>>
    /\ direct = IdleDirect

(***************************************************************************)
(* Slices of the system.  Spec has too many states to enumerate; each      *)
(* slice keeps some of its actions and some of the answers of the          *)
(* extraction service, and starts from a queue that Spec reaches.          *)
(***************************************************************************)
NoRun == seq.pc = "idle" /\ ~par.active /\ ~asy.active

\* one run of one driver at a time, nothing else touching the repository
NextRun ==
    \/ NoRun /\ SeqStart
    \/ SeqClaim
    \/ SeqSend
    \/ \E code \in Outcomes, payload \in Payloads : SeqRespond(code, payload)
    \/ SeqReturn
    \/ NoRun /\ ParStart
    \/ \E k \in Ids : ParClaim(k)
    \/ \E k \in Ids : ParSend(k)
    \/ \E k \in Ids, code \in Outcomes, payload \in Payloads : ParRespond(k, code, payload)
    \/ ParReturn
    \/ NoRun /\ AsyncStart
    \/ \E k \in Ids : AsyncSend(k)
    \/ \E k \in Ids, code \in Outcomes, payload \in Payloads : AsyncRespond(k, code, payload)
    \/ AsyncReturn

SpecRun == InitRun /\ [][NextRun]_vars

\* the two drivers the routes start, overlapping
NextOverlap ==
    \/ SeqStart
    \/ SeqClaim
    \/ SeqSend
    \/ \E code \in {200, 504} : SeqRespond(code, 1)
    \/ SeqReturn
    \/ AsyncStart
    \/ \E k \in Ids : AsyncSend(k)
    \/ \E k \in Ids, code \in {200, 504} : AsyncRespond(k, code, 1)
    \/ AsyncReturn

SpecOverlap == InitRun /\ [][NextOverlap]_vars

\* enqueue calls and the async driver
NextEnqueue ==
    \/ \E pair \in Pairs : QueueDocument(pair)
    \/ \E size \in 0..MaxSize : QueueDocumentDownloaded(size)
    \/ StartLaunch
    \/ ProcessQueue
    \/ ProcessQueueOrphan
    \/ AsyncStart
    \/ \E k \in Ids : AsyncSend(k)
    \/ \E k \in Ids, code \in {200, 504} : AsyncRespond(k, code, 1)
    \/ AsyncReturn

SpecEnqueue == Init /\ [][NextEnqueue]_vars

\* the queue controller and the enqueue calls that start it
NextCtl ==
    \/ \E pair \in Pairs : QueueDocument(pair)
    \/ \E size \in 0..MaxSize : QueueDocumentDownloaded(size)
    \/ StartLaunch
    \/ ProcessQueue
    \/ ProcessQueueOrphan
    \/ PauseQueue
    \/ ResumeQueue
    \/ ResumeReturn
    \/ StopProcessing
    \/ StopProcessingJoined
    \/ QueueReset

SpecCtl == Init /\ [][NextCtl]_vars

\* driver runs, one at a time, with the operator resetting and retrying
NextReset ==
    \/ NoRun /\ SeqStart
    \/ SeqClaim
    \/ SeqSend
    \/ \E code \in {200, 504} : SeqRespond(code, 1)
    \/ SeqReturn
    \/ NoRun /\ AsyncStart
    \/ \E k \in Ids : AsyncSend(k)
    \/ \E k \in Ids, code \in {200, 504} : AsyncRespond(k, code, 1)
    \/ AsyncReturn
    \/ \E doc_id \in Ids : ResetDocument(doc_id)
    \/ RetryFailedDocuments

SpecReset == InitQueued /\ [][NextReset]_vars

\* driver runs, one at a time, with the clock and the reset of stuck rows
NextStuck ==
    \/ NoRun /\ SeqStart
    \/ SeqClaim
    \/ SeqSend
    \/ \E code \in {200, 504} : SeqRespond(code, 1)
    \/ SeqReturn
    \/ NoRun /\ AsyncStart
    \/ \E k \in Ids : AsyncSend(k)
    \/ \E k \in Ids, code \in {200, 504} : AsyncRespond(k, code, 1)
    \/ AsyncReturn
    \/ Tick
    \/ ResetAllStuckDocuments

SpecStuck == InitRun /\ [][NextStuck]_vars

\* driver runs, one at a time, with the queue controller
NextStop ==
    \/ NoRun /\ SeqStart
    \/ SeqClaim
    \/ SeqSend
    \/ \E code \in {200, 504} : SeqRespond(code, 1)
    \/ SeqReturn
    \/ NoRun /\ AsyncStart
    \/ \E k \in Ids : AsyncSend(k)
    \/ \E k \in Ids, code \in {200, 504} : AsyncRespond(k, code, 1)
    \/ AsyncReturn
    \/ RetryFailedDocuments
    \/ StartLaunch
    \/ ProcessQueue
    \/ ProcessQueueOrphan
    \/ PauseQueue
    \/ ResumeQueue
    \/ ResumeReturn
    \/ StopProcessing
    \/ StopProcessingJoined

SpecStop == InitQueued /\ [][NextStop]_vars

\* driver runs, one at a time, with enqueue calls, pause and resume
NextPause ==
    \/ NoRun /\ SeqStart
    \/ SeqClaim
    \/ SeqSend
    \/ SeqRespond(200, 1)
    \/ SeqReturn
    \/ NoRun /\ AsyncStart
    \/ \E k \in Ids : AsyncSend(k)
    \/ \E k \in Ids : AsyncRespond(k, 504, 1)
    \/ AsyncReturn
    \/ \E pair \in Pairs : QueueDocument(pair)
    \/ \E size \in 0..MaxSize : QueueDocumentDownloaded(size)
    \/ RetryFailedDocuments
    \/ StartLaunch
    \/ ProcessQueue
    \/ ProcessQueueOrphan
    \/ PauseQueue
    \/ ResumeQueue
    \/ ResumeReturn

SpecPause == InitQueued /\ [][NextPause]_vars

\* driver runs, one at a time and launched only while the queue is enabled,
\* with stop and resume
NextHalt ==
    \/ queue_enabled /\ NoRun /\ SeqStart
    \/ SeqClaim
    \/ SeqSend
    \/ \E code \in {200, 504} : SeqRespond(code, 1)
    \/ SeqReturn
    \/ queue_enabled /\ NoRun /\ AsyncStart
    \/ \E k \in Ids : AsyncSend(k)
    \/ \E k \in Ids, code \in {200, 504} : AsyncRespond(k, code, 1)
    \/ AsyncReturn
    \/ StartLaunch
    \/ ProcessQueue
    \/ ProcessQueueOrphan
    \/ ResumeQueue
    \/ ResumeReturn
    \/ StopProcessing
    \/ StopProcessingJoined

SpecHalt == InitQueued /\ [][NextHalt]_vars

\* driver runs, one at a time, with restarts of the process and the status
\* route
NextStatus ==
    \/ NoRun /\ SeqStart
    \/ SeqClaim
    \/ SeqSend
    \/ \E code \in {200, 504} : SeqRespond(code, 1)
    \/ SeqReturn
    \/ NoRun /\ AsyncStart
    \/ \E k \in Ids : AsyncSend(k)
    \/ \E k \in Ids, code \in {200, 504} : AsyncRespond(k, code, 1)
    \/ AsyncReturn
    \/ StartLaunch
    \/ ProcessQueue
    \/ ProcessQueueOrphan
    \/ ResumeQueue
    \/ ResumeReturn
    \/ GetQueueStatus
    \/ Restart

SpecStatus == InitQueued /\ [][NextStatus]_vars

\* a sequential and an async run that may overlap, with retry-failed
NextExhaust ==
    \/ SeqStart
    \/ SeqClaim
    \/ SeqSend
    \/ SeqRespond(200, 1)
    \/ SeqReturn
    \/ AsyncStart
    \/ \E k \in Ids : AsyncSend(k)
    \/ \E k \in Ids : AsyncRespond(k, 504, 1)
    \/ AsyncReturn
    \/ RetryFailedDocuments

SpecExhaust == InitQueued /\ [][NextExhaust]_vars

\* driver runs, one at a time, and the purge of queue_documents_for_processing
NextPurge ==
    \/ NoRun /\ SeqStart
    \/ SeqClaim
    \/ SeqSend
    \/ \E code \in {200, 504} : SeqRespond(code, 1)
    \/ SeqReturn
    \/ NoRun /\ AsyncStart
    \/ \E k \in Ids : AsyncSend(k)
    \/ \E k \in Ids, code \in {200, 504} : AsyncRespond(k, code, 1)
    \/ AsyncReturn
    \/ QueueReset

SpecPurge == InitQueued /\ [][NextPurge]_vars

\* async runs started by the routes process_async and process_test_async
NextTest ==
    \/ AsyncStart
    \/ \E k \in Ids : AsyncSend(k)
    \/ \E k \in Ids, code \in {200, 504} : AsyncRespond(k, code, 1)
    \/ AsyncReturn
    \/ ProcessTestAsync
    \/ ProcessInBackground
    \/ RetryFailedDocuments

SpecTest == InitQueued /\ [][NextTest]_vars


\* driver runs, one at a time, in a process with or without its configuration
NextConfig ==
    \/ NoRun /\ SeqStart
    \/ SeqClaim
    \/ SeqSend
    \/ \E code \in {200, 504} : SeqRespond(code, 1)
    \/ SeqReturn
    \/ NoRun /\ ParStart
    \/ \E k \in Ids : ParClaim(k)
    \/ \E k \in Ids : ParSend(k)
    \/ \E k \in Ids, code \in {200, 504} : ParRespond(k, code, 1)
    \/ ParReturn
    \/ NoRun /\ AsyncStart
    \/ \E k \in Ids : AsyncSend(k)
    \/ \E k \in Ids, code \in {200, 504} : AsyncRespond(k, code, 1)
    \/ AsyncReturn

SpecConfig == InitConfig /\ [][NextConfig]_vars


\* the background thread alone, after a restart of the process: the queue
\* controller with enqueue calls and resume(), no run started by a route
NextBackground ==
    \/ Restart
    \/ \E pair \in Pairs : QueueDocument(pair)
    \/ \E size \in 0..MaxSize : QueueDocumentDownloaded(size)
    \/ StartLaunch
    \/ ProcessQueue
    \/ ProcessQueueOrphan
    \/ ResumeQueue
    \/ ResumeReturn

\* a thread that has been started runs, and a call that waits returns
FairBackground ==
    /\ WF_vars(StartLaunch)
    /\ WF_vars(ProcessQueue)
    /\ WF_vars(ProcessQueueOrphan)
    /\ WF_vars(ResumeReturn)
    /\ WF_vars(\E size \in 0..MaxSize : QueueDocumentDownloaded(size))

SpecBackground == InitQueued /\ [][NextBackground]_vars /\ FairBackground


\* a sequential and an async run that may overlap, every call answered with
\* 200 and one of the payloads, and the clock
NextTwice ==
    \/ SeqStart
    \/ SeqClaim
    \/ SeqSend
    \/ \E payload \in Payloads : SeqRespond(200, payload)
    \/ SeqReturn
    \/ AsyncStart
    \/ \E k \in Ids : AsyncSend(k)
    \/ \E k \in Ids, payload \in Payloads : AsyncRespond(k, 200, payload)
    \/ AsyncReturn
    \/ Tick

SpecTwice == InitQueued /\ [][NextTwice]_vars


\* one async run over a batch that may be longer than the semaphore is wide
NextBatch ==
    \/ AsyncStart
    \/ \E k \in 1..MaxBatch : AsyncSend(k)
    \/ \E k \in 1..MaxBatch, code \in {200, 504} : AsyncRespond(k, code, 1)
    \/ AsyncReturn

SpecBatch == InitBatch /\ [][NextBatch]_vars


\* the three drivers build a request for one file
NextTimeout ==
    \/ SeqPost
    \/ ParPost
    \/ AsyncPost

SpecTimeout == InitTimeout /\ [][NextTimeout]_vars

\* the fail/retry cycle: sequential and async runs that may overlap and
\* whose calls fail, and retry-failed with the background thread it starts
NextCycle ==
    \/ SeqStart
    \/ SeqClaim
    \/ SeqSend
    \/ SeqRespond(504, 1)
    \/ SeqReturn
    \/ AsyncStart
    \/ \E k \in Ids : AsyncSend(k)
    \/ \E k \in Ids, code \in {200, 504} : AsyncRespond(k, code, 1)
    \/ AsyncReturn
    \/ RetryFailedDocuments
    \/ StartLaunch
    \/ ProcessQueue
    \/ ProcessQueueOrphan

SpecCycle == InitQueued /\ [][NextCycle]_vars

\* DocumentQueueManager: workers that take the next pending record and
\* report its outcome, the cleanup of stale records, and the clock
NextManager ==
    \/ \E pair \in Pairs, priority \in 0..MaxPriority : AddDocumentToQueue(pair, priority)
    \/ MarkProcessing
    \/ \E id \in 1..MaxManaged : MarkCompleted(id, 1)
    \/ \E id \in 1..MaxManaged : MarkFailed(id, TRUE)
    \/ CleanupStaleProcessing
    \/ Tick

SpecManager == Init /\ [][NextManager]_vars

\* calls of start_direct_processing, with a sequential run that may empty
\* the queue
NextDirect ==
    \/ \E t \in DirectThreads : StartDirectProcessing(t)
    \/ \E t \in DirectThreads : DirectCheck(t)
    \/ \E t \in DirectThreads : DirectSet(t)
    \/ \E t \in DirectThreads : DirectQuery(t)
    \/ \E t \in DirectThreads, success \in BOOLEAN : DirectProcessSingle(t, success)
    \/ \E t \in DirectThreads : DirectRaise(t)
    \/ \E t \in DirectThreads : DirectFinally(t)
    \/ NoRun /\ SeqStart
    \/ SeqClaim
    \/ SeqSend
    \/ SeqRespond(200, 1)
    \/ SeqReturn

SpecDirect == InitQueued /\ [][NextDirect]_vars

(***************************************************************************)
(* Properties of the queue                                                 *)
(***************************************************************************)
\* the rows a run has set to processing and not yet written back
HeldBySeq == IF seq.pc \in {"claimed", "posting"} THEN {seq.docs[seq.i].id} ELSE {}
HeldByPar == {par.docs[k].id : k \in Running(par.task, {"claimed", "posting"})}
HeldByAsync == {asy.docs[k].id : k \in Running(asy.task, {"created", "posting"})}

\* C1: no record is claimed twice. While a row is in processing at most one
\* of the overlapping driver runs has claimed it and not yet written it back.
C1_NoDoubleClaim ==
    \A id \in DOMAIN queue :
        queue[id].status = "processing" =>
            /\ ~(id \in HeldBySeq /\ id \in HeldByAsync)
            /\ ~(id \in HeldBySeq /\ id \in HeldByPar)
            /\ ~(id \in HeldByPar /\ id \in HeldByAsync)

RecordsOf(q, pair) == {id \in DOMAIN q : q[id].pair = pair}
ActiveOf(q, pair) == {id \in RecordsOf(q, pair) : q[id].status \in {"queued", "processing"}}

\* C2: an enqueue call for a pair that has a queued or processing row creates
\* no row and starts no download, whatever completed or failed rows of the
\* pair exist.
C2_NoDuplicate ==
    [][\A pair \in Pairs :
          (ActiveOf(queue, pair) # {} /\ QueueDocument(pair)) =>
              (RecordsOf(queue', pair) = RecordsOf(queue, pair) /\ requests' = requests)]_vars

StatusChanges ==
    {<<"queued", "processing">>, <<"processing", "completed">>,
     <<"processing", "failed">>, <<"failed", "queued">>, <<"processing", "queued">>}

\* C3: every status change of a row is queued to processing, processing to
\* completed, processing to failed, failed to queued by the retry action, or
\* processing to queued by a reset or stop action; a completed row keeps its
\* status.
C3_Transitions ==
    [][\A id \in (DOMAIN queue) \cap (DOMAIN queue') :
          LET change == <<queue[id].status, queue'[id].status>>
          IN change[1] # change[2] =>
                /\ change \in StatusChanges
                /\ change = <<"failed", "queued">> => RetryFailedDocuments
                /\ change = <<"processing", "queued">> =>
                      \/ \E doc_id \in Ids : ResetDocument(doc_id)
                      \/ ResetAllStuckDocuments
                      \/ StopProcessing
                      \/ StopProcessingJoined]_vars

\* C4: the reset that stop() does leaves every row that was in processing
\* queued with started_at cleared, and every completed row as it was.
C4_StopResets ==
    [][(StopProcessingJoined \/ (StopProcessing /\ ~ThreadAlive)) =>
          /\ DOMAIN queue' = DOMAIN queue
          /\ \A id \in DOMAIN queue :
                /\ queue[id].status = "processing" =>
                      (queue'[id].status = "queued" /\ queue'[id].started_at = NoTime)
                /\ queue[id].status = "completed" => queue'[id] = queue[id]]_vars

\* stop() came in the middle of an async run: two rows whose requests are
\* still in flight are queued again and a third one is completed
C4_Witness ==
    /\ ~queue_enabled
    /\ asy.active
    /\ \E j, k \in DOMAIN asy.task :
          /\ j # k
          /\ asy.task[j] = "posting" /\ asy.task[k] = "posting"
          /\ \A m \in {j, k} :
                /\ asy.docs[m].id \in DOMAIN queue
                /\ queue[asy.docs[m].id].status = "queued"
                /\ queue[asy.docs[m].id].started_at = NoTime
    /\ \E id \in DOMAIN queue :
          queue[id].status = "completed" /\ queue[id].processed_data # NoData

\* C5: reset_all_stuck leaves every row that was in processing with
\* started_at more than 20 minutes old queued, with started_at cleared and
\* retry_count one higher.
C5_ResetAllStuck ==
    [][ResetAllStuckDocuments =>
          \A id \in DOMAIN queue :
             (/\ queue[id].status = "processing"
              /\ queue[id].started_at # NoTime
              /\ now - queue[id].started_at > StuckMinutes) =>
                 /\ queue'[id].status = "queued"
                 /\ queue'[id].started_at = NoTime
                 /\ queue'[id].retry_count = queue[id].retry_count + 1]_vars

\* a row that reset_all_stuck has put back
C5_Witness ==
    \E id \in DOMAIN queue :
        /\ queue[id].status = "queued"
        /\ queue[id].started_at = NoTime
        /\ queue[id].retry_count = 1
        /\ queue[id].error_message = AutoResetMsg(1)

\* the row of a document the run has finished with
Settled(id, success) ==
    /\ id \in DOMAIN queue
    /\ IF success
       THEN queue[id].status = "completed" /\ queue[id].processed_data # NoData
       ELSE /\ queue[id].status = "failed"
            /\ queue[id].error_message # NoMsg
            /\ queue[id].failed_at # NoTime

\* C6: an error on one record does not end the run nor touch the others. A
\* run that is over has a result for every document of its batch; a document
\* whose call failed has a failed row with the error on it, and a document
\* whose call returned 200 has a completed row.
C6_ErrorsIsolated ==
    /\ seq.pc \in {"next", "claimed", "posting"} =>
          (seq.i <= Len(seq.docs) /\ Len(seq.results) = seq.i - 1)
    /\ seq.pc = "done" =>
          /\ Len(seq.results) = Len(seq.docs)
          /\ \A k \in DOMAIN seq.docs :
                /\ seq.results[k].id = seq.docs[k].id
                /\ Settled(seq.docs[k].id, seq.results[k].success)
    /\ (par.active /\ AllDone(par.task)) =>
          /\ Len(par.results) = Len(par.docs)
          /\ \A k \in DOMAIN par.docs :
                \E j \in DOMAIN par.results :
                    /\ par.results[j].id = par.docs[k].id
                    /\ Settled(par.docs[k].id, par.results[j].success)
    /\ (asy.active /\ AllDone(asy.task)) =>
          \A k \in DOMAIN asy.docs :
              /\ asy.results[k] \in {"result", "None"}
              /\ Settled(asy.docs[k].id, asy.results[k] = "result")

\* a sequential run over three documents is over: the second call returned
\* 504 and its row is failed, the first and the third row are completed
C6_Witness ==
    /\ seq.pc = "done"
    /\ Len(seq.docs) = 3
    /\ queue[seq.docs[1].id].status = "completed"
    /\ queue[seq.docs[2].id].status = "failed"
    /\ queue[seq.docs[2].id].error_message = SeqApiError(504)
    /\ queue[seq.docs[3].id].status = "completed"

\* the message says that the document may have been processed after all
FlagsAmbiguousTimeout(msg) == msg.text = AsyncGatewayTimeout.text

\* C7: in every driver, a record whose extraction call returns 504 ends
\* failed with a message that flags the ambiguous timeout and that no other
\* non-200 answer produces.
C7_GatewayTimeoutFlagged ==
    [][/\ SeqRespond(504, 1) =>
             LET id == seq.docs[seq.i].id
             IN queue'[id].status = "failed"
                /\ FlagsAmbiguousTimeout(queue'[id].error_message)
       /\ \A k \in Ids :
             /\ ParRespond(k, 504, 1) =>
                   LET id == par.docs[k].id
                   IN queue'[id].status = "failed"
                      /\ FlagsAmbiguousTimeout(queue'[id].error_message)
             /\ AsyncRespond(k, 504, 1) =>
                   LET id == asy.docs[k].id
                   IN queue'[id].status = "failed"
                      /\ FlagsAmbiguousTimeout(queue'[id].error_message)]_vars

RunEnded ==
    \/ seq.pc = "done"
    \/ par.active /\ AllDone(par.task)
    \/ asy.active /\ AllDone(asy.task)

\* C8: a driver run claims every record that is queued when it starts, with
\* or without a local file: when the run is over none of them is queued.
C8_NoneLeftQueued == RunEnded => WithStatus(queue, "queued") = {}

DispatchedSeq ==
    {k \in DOMAIN seq.docs :
        k < seq.i \/ (k = seq.i /\ seq.pc \in {"claimed", "posting", "done"})}
DispatchedPar == {k \in DOMAIN par.docs : par.task[k] # "submitted"}
DispatchedAsync == {k \in DOMAIN asy.docs : asy.task[k] # "created"}

\* the row has a local file and the file is there
KnownSize(doc) ==
    /\ doc.id \in DOMAIN queue
    /\ queue[doc.id].local_file_path
    /\ files[doc.pair] # 0

\* no document has been dispatched ahead of a smaller one of its batch
AscendingSize(docs, dispatched) ==
    \A j, k \in DOMAIN docs :
        (k \in dispatched /\ j \notin dispatched
            /\ KnownSize(docs[j]) /\ KnownSize(docs[k])) =>
                ~(files[docs[j].pair] < files[docs[k].pair])

\* C9: every driver dispatches the records of a batch in ascending order of
\* local file size.
C9_AscendingSize ==
    /\ AscendingSize(seq.docs, DispatchedSeq)
    /\ AscendingSize(par.docs, DispatchedPar)
    /\ AscendingSize(asy.docs, DispatchedAsync)

\* C10: at most one background thread is alive, also when enqueue, resume
\* and retry-failed call start() at the same time.
C10_OneThread == AliveThreads <= 1

\* C11: between pause() and the next resume() no driver run is launched
\* through any entry point, and pause() itself leaves the rows and the runs
\* in flight as they are.
C11_PausedNoLaunch ==
    [][/\ (~queue_enabled /\ ~queue_enabled') =>
             ~(SeqStart \/ ParStart \/ AsyncStart \/ StartLaunch)
       /\ PauseQueue => UNCHANGED <<queue, seq, par, asy>>]_vars

\* a background thread or a driver run is alive
DriverRunning == AliveThreads >= 1 \/ ~NoRun

\* C12: resume() re-enables launches; when a record is queued at the call a
\* driver is running when resume() returns, and with no queued record
\* resume() starts none.
C12_ResumeStarts ==
    [][/\ ResumeQueue => queue_enabled'
       /\ (ResumeQueue /\ WithStatus(queue, "queued") # {} /\ requests' = requests) =>
             DriverRunning'
       /\ ResumeReturn => DriverRunning'
       /\ (ResumeQueue /\ WithStatus(queue, "queued") = {}) => requests' = requests]_vars

\* stop_processing has returned and the queue has not been resumed since
Stopped ==
    /\ ~queue_enabled
    /\ \A r \in BagToSet(requests) : r.op # "stop_processing"

\* C13: after stop() has returned a driver that was active makes no new
\* claim: no row goes from queued to processing until the queue is resumed.
C13_StoppedNoClaim ==
    [][(Stopped /\ Stopped') =>
          \A id \in (DOMAIN queue) \cap (DOMAIN queue') :
              ~(queue[id].status = "queued" /\ queue'[id].status = "processing")]_vars

C15_ActiveFlag == QueueStatus.is_processing <=> DriverRunning

\* a failed row that retry-failed no longer takes
Exhausted(row) == row.status = "failed" /\ row.retry_count >= row.max_retries

\* C16: a failed row whose retry_count has reached max_retries stays failed
\* with its error_message under every operation except the operator's reset
\* of that row and the purge; retry-failed never returns it to queued.
C16_ExhaustedStaysFailed ==
    [][\A id \in DOMAIN queue :
          Exhausted(queue[id]) =>
              \/ /\ id \in DOMAIN queue'
                 /\ queue'[id].status = "failed"
                 /\ queue'[id].error_message = queue[id].error_message
              \/ ResetDocument(id)
              \/ QueueReset]_vars

\* C17: reset(record_id) changes a row only when it is in processing; on a
\* queued, completed or failed row it leaves status, retry_count,
\* error_message and the results as they are.
C17_ResetOnlyProcessing ==
    [][\A doc_id \in Ids :
          (ResetDocument(doc_id) /\ queue[doc_id].status # "processing") =>
              /\ queue'[doc_id].status = queue[doc_id].status
              /\ queue'[doc_id].retry_count = queue[doc_id].retry_count
              /\ queue'[doc_id].error_message = queue[doc_id].error_message
              /\ queue'[doc_id].processed_data = queue[doc_id].processed_data
              /\ queue'[doc_id].saved_file_path = queue[doc_id].saved_file_path]_vars

\* C18: the purge takes effect only when no driver run is active and no row
\* is in processing.
C18_PurgeWhenIdle ==
    [][QueueReset => (NoRun /\ WithStatus(queue, "processing") = {})]_vars

\* C19: a row is removed only by the purge of the queue reset; no driver run
\* and no operation that starts processing removes one.
C19_DeletedOnlyByPurge ==
    [][\A id \in DOMAIN queue : id \notin DOMAIN queue' => QueueReset]_vars

Statuses == {"queued", "processing", "completed", "failed"}

\* C20: in every reachable state the status of every row is one of queued,
\* processing, completed, failed.
C20_StatusDomain == \A id \in DOMAIN queue : queue[id].status \in Statuses

\* rows that drivers, retry-failed and the operator's reset have written
C20_Witness ==
    /\ \E id \in DOMAIN queue : queue[id].status = "failed" /\ queue[id].retry_count >= 2
    /\ \E id \in DOMAIN queue : queue[id].status = "completed"
    /\ \E id \in DOMAIN queue :
          queue[id].status = "queued" /\ queue[id].error_message = ResetMsg(1)

\* the local file of a document of a batch is not there
FileMissing(doc) == ~FileExists(doc.pair)

\* C21: a driver that finds the local file of a claimed record missing has it
\* downloaded again before anything else: the step that finds the file
\* missing leaves the record in processing, and the record fails only after
\* a download that failed.
C21_RedownloadFirst ==
    [][/\ (SeqSend /\ FileMissing(seq.docs[seq.i])) =>
             queue'[seq.docs[seq.i].id].status = "processing"
       /\ \A k \in Ids :
             /\ (ParSend(k) /\ FileMissing(par.docs[k])) =>
                   queue'[par.docs[k].id].status = "processing"
             /\ (AsyncSend(k) /\ FileMissing(asy.docs[k])) =>
                   queue'[asy.docs[k].id].status = "processing"]_vars

\* the raw result of a document and its notification record are on disk
Persisted(pair) ==
    /\ <<"result", pair>> \in processed_dir
    /\ <<"notification", pair>> \in processed_dir

\* C22: in every driver the raw result and its notification record are
\* written before the record is marked completed: the result file and the
\* notification file of every completed record exist.
C22_PersistedBeforeCompleted ==
    \A id \in DOMAIN queue :
        queue[id].status = "completed" => Persisted(queue[id].pair)

\* the extraction endpoint or the credentials are missing from the environment
NotConfigured == ~norshin_api_url \/ ~norshin_api_key

\* C23: without the extraction endpoint or the credentials no driver starts,
\* and no record changes status, failed_at, error_message or retry_count.
C23_NotConfiguredNoStart ==
    [][NotConfigured =>
          /\ ~(SeqStart \/ ParStart \/ AsyncStart)
          /\ DOMAIN queue' = DOMAIN queue
          /\ \A id \in DOMAIN queue :
                /\ queue'[id].status = queue[id].status
                /\ queue'[id].failed_at = queue[id].failed_at
                /\ queue'[id].error_message = queue[id].error_message
                /\ queue'[id].retry_count = queue[id].retry_count]_vars

\* a record of the batch has been rejected as unauthorized
Unauthorized(docs, msg) ==
    \E j \in DOMAIN docs :
        /\ docs[j].id \in DOMAIN queue
        /\ queue[docs[j].id].status = "failed"
        /\ queue[docs[j].id].error_message = msg

\* C24: an answer 401 of the extraction service halts the run: once a record
\* of the batch has been rejected as unauthorized the driver claims and
\* submits no further record, so no other retry_count grows.
C24_UnauthorizedHalts ==
    [][/\ Unauthorized(seq.docs, SeqApiError(401)) => ~(SeqClaim \/ SeqSend)
       /\ Unauthorized(par.docs, ParApiError(401)) =>
             \A k \in Ids : ~(ParClaim(k) \/ ParSend(k))
       /\ Unauthorized(asy.docs, AsyncApiError(401)) =>
             \A k \in Ids : ~AsyncSend(k)]_vars

\* C25: the background driver takes its work from the repository: once its
\* thread has been started by enqueue, start() or resume(), every record that
\* is queued in the repository is eventually completed or failed.
C25_BackgroundDrains ==
    \A id \in Ids :
        (ThreadAlive /\ id \in DOMAIN queue /\ queue[id].status = "queued")
            ~> (id \in DOMAIN queue /\ queue[id].status \in {"completed", "failed"})

\* the write-back of a second completion: the row is still the only one of
\* its document, it is completed and holds the serialization of the payload
Overwritten(id, payload) ==
    /\ DOMAIN queue' = DOMAIN queue
    /\ RecordsOf(queue', queue[id].pair) = RecordsOf(queue, queue[id].pair)
    /\ queue'[id].status = "completed"
    /\ queue'[id].processed_data = Dumps(payload)
    /\ Loads(queue'[id].processed_data) = payload

\* C26: marking a record completed a second time is safe: no row is added,
\* the row stays completed and its processed_data is the serialization of
\* the second payload.
C26_CompletedTwice ==
    [][\A payload \in Payloads :
          /\ (SeqRespond(200, payload)
                /\ queue[seq.docs[seq.i].id].status = "completed") =>
                   Overwritten(seq.docs[seq.i].id, payload)
          /\ \A k \in Ids :
                (AsyncRespond(k, 200, payload)
                   /\ queue[asy.docs[k].id].status = "completed") =>
                      Overwritten(asy.docs[k].id, payload)]_vars

\* a record that the sequential and the async run have both completed: the
\* later write-back, at minute ten, brought the second payload
C26_Witness ==
    \E k \in DOMAIN asy.docs :
        LET id == asy.docs[k].id
        IN /\ asy.results[k] = "result"
           /\ \E j \in DOMAIN seq.results :
                 seq.results[j].id = id /\ seq.results[j].success
           /\ queue[id].status = "completed"
           /\ queue[id].saved_file_path = ResultPath
           /\ queue[id].completed_at = TickMinutes
           /\ queue[id].processed_data = Dumps(2)

\* a step of a driver after its claim: the file check or the answer
DriverWriteBack ==
    \/ SeqSend
    \/ \E code \in Outcomes, payload \in Payloads : SeqRespond(code, payload)
    \/ \E k \in Ids : ParSend(k)
    \/ \E k \in Ids, code \in Outcomes, payload \in Payloads : ParRespond(k, code, payload)
    \/ \E k \in Ids : AsyncSend(k)
    \/ \E k \in Ids, code \in Outcomes, payload \in Payloads : AsyncRespond(k, code, payload)

\* the messages the column error_message holds
MessagesIn(field) == IF field = NoMsg THEN {} ELSE {field}

\* C27: every failure write-back of a driver sets the status to failed,
\* stamps failed_at, adds its message to error_message, where the earlier
\* messages stay, and adds exactly 1 to retry_count.
C27_MarkFailed ==
    [][DriverWriteBack =>
          \A id \in (DOMAIN queue) \cap (DOMAIN queue') :
              (queue'[id] # queue[id] /\ queue'[id].status = "failed") =>
                  /\ queue'[id].failed_at = now
                  /\ queue'[id].retry_count = queue[id].retry_count + 1
                  /\ MessagesIn(queue'[id].error_message) # {}
                  /\ MessagesIn(queue[id].error_message)
                        \subseteq MessagesIn(queue'[id].error_message)]_vars

\* C28: a download that fails during enqueue is not raised to the caller: the
\* call stores no file, and enqueue inserts the record queued and without a local
\* file path, every other row as it was.
C28_SoftDownloadFailure ==
    [][QueueDocumentDownloaded(0) =>
          /\ files' = files
          /\ DOMAIN queue' = (DOMAIN queue) \cup {next_id}
          /\ next_id \notin DOMAIN queue
          /\ \A id \in DOMAIN queue : queue'[id] = queue[id]
          /\ queue'[next_id].status = "queued"
          /\ ~queue'[next_id].local_file_path
          /\ \E r \in BagToSet(requests) :
                /\ r.op = "queue_document"
                /\ queue'[next_id].pair = r.pair]_vars

\* a record that was enqueued while its download failed: it is queued, has no
\* local file path and no file is stored for its document
C28_Witness ==
    \E id \in DOMAIN queue :
        /\ queue[id].status = "queued"
        /\ ~queue[id].local_file_path
        /\ ~FileExists(queue[id].pair)
        /\ \A r \in BagToSet(requests) : r.op # "queue_document"

\* the extension the rules give, in their order: Content-Disposition, binary
\* signature, content type, URL suffix, default
InferredExtension(pair) ==
    DetermineFileExtension(Document(pair).content, Document(pair).content_type,
                           Document(pair).content_disposition, Document(pair).url_suffix)

\* C29: the extension of a stored document is the one the first applicable
\* rule gives; a document enqueued with a successful download, PDF magic
\* bytes and no Content-Disposition header is stored with .pdf and queued.
C29_ExtensionInference ==
    [][\A size \in 1..MaxSize :
          QueueDocumentDownloaded(size) =>
              /\ queue'[next_id].status = "queued"
              /\ queue'[next_id].filename = InferredExtension(queue'[next_id].pair)
              /\ (/\ Document(queue'[next_id].pair).content = "%PDF"
                  /\ ~Document(queue'[next_id].pair).content_disposition.filename) =>
                       queue'[next_id].filename = ".pdf"]_vars

\* the records whose extraction request is in flight
InFlight == Running(asy.task, {"posting"})

\* C30: the async driver launches one task per record it has claimed, and at
\* every moment at most SemaphoreLimit (10) extraction requests are in
\* flight, whatever the length of the batch.
C30_BoundedConcurrency ==
    /\ Cardinality(InFlight) <= SemaphoreLimit
    /\ asy.semaphore = SemaphoreLimit - Cardinality(InFlight)
    /\ asy.active =>
          /\ DOMAIN asy.task = DOMAIN asy.docs
          /\ \A j, k \in DOMAIN asy.docs : asy.docs[j].id = asy.docs[k].id => j = k
          /\ {asy.docs[k].id : k \in DOMAIN asy.docs} =
                {id \in DOMAIN queue : queue[id].started_at # NoTime}

\* ten requests are in flight and the eleventh task of the batch waits for
\* the semaphore
C30_Witness ==
    /\ Cardinality(InFlight) = SemaphoreLimit
    /\ asy.semaphore = 0
    /\ Len(asy.docs) > SemaphoreLimit
    /\ \E k \in DOMAIN asy.task : asy.task[k] = "created"

(***************************************************************************)
(* C31: in the async driver the terminal status of a record is written     *)
(* when its own task finishes: when the process is interrupted during a    *)
(* run, the row of every finished task is completed or failed in the       *)
(* repository, and the row of every unfinished task is still processing.   *)
(***************************************************************************)
Terminal == {"completed", "failed"}

\* what the repository q holds for the tasks of the async run a
PartialProgress(a, q) ==
    \A k \in DOMAIN a.task :
        /\ a.docs[k].id \in DOMAIN q
        /\ IF a.task[k] = "done"
           THEN q[a.docs[k].id].status \in Terminal
           ELSE q[a.docs[k].id].status = "processing"

C32_OneAtATime ==
    (seq.pc # "idle" /\ ~par.active /\ ~asy.active) =>
        /\ Cardinality({k \in DOMAIN seq.docs :
                           queue[seq.docs[k].id].status = "processing"}) <= 1
        /\ \A k \in DOMAIN seq.docs :
              /\ k < seq.i => queue[seq.docs[k].id].status \in Terminal
              /\ k > seq.i => queue[seq.docs[k].id].status = "queued"

\* the second of three documents is claimed: the first is done, the third
\* waits
C32_Witness ==
    /\ seq.pc = "claimed"
    /\ Len(seq.docs) = 3
    /\ seq.i = 2
    /\ queue[seq.docs[1].id].status \in Terminal
    /\ queue[seq.docs[2].id].status = "processing"
    /\ queue[seq.docs[3].id].status = "queued"

(***************************************************************************)
(* C33: among the records that wait, a record of higher priority is        *)
(* dispatched sooner than one of lower priority, and of two records of     *)
(* equal priority the older one first: no driver has dispatched a document *)
(* of its batch while one that comes before it in that order still waits.  *)
(***************************************************************************)
\* ORDER BY priority DESC, created_at ASC; ids grow with created_at
Sooner(a, b) ==
    \/ queue[a].priority > queue[b].priority
    \/ queue[a].priority = queue[b].priority /\ a < b

PriorityOrder(docs, dispatched) ==
    \A j, k \in DOMAIN docs :
        (k \in dispatched /\ j \notin dispatched) => ~Sooner(docs[j].id, docs[k].id)

TimeoutOf(driver, st_size) ==
    CASE driver = "sequential" -> SeqTimeout(st_size)
      [] driver = "parallel" -> ParRequestTimeout(st_size)
      [] driver = "async" -> AsyncClientTimeout(st_size)

C34_TimeoutScaled ==
    timeout.driver # "None" =>
        /\ timeout.seconds = Min(300 + 120 * (file_size \div (10 * 1024 * 1024)), 1800)
        /\ timeout.seconds >= 300
        /\ timeout.seconds <= 1800
        /\ \A smaller \in FileSizes :
              smaller <= file_size => TimeoutOf(timeout.driver, smaller) <= timeout.seconds

(***************************************************************************)
(* C35: a driver run ends with no record of its batch left in processing:  *)
(* when the sequential, the thread-pool or the async driver has handled    *)
(* the last document of its batch and nothing else has touched the         *)
(* repository, every record of the batch is completed or failed.           *)
(***************************************************************************)
BatchSettled(docs) ==
    \A k \in DOMAIN docs :
        docs[k].id \in DOMAIN queue /\ queue[docs[k].id].status \in Terminal

C35_NoneLeftProcessing ==
    /\ seq.pc = "done" => BatchSettled(seq.docs)
    /\ (par.active /\ AllDone(par.task)) => BatchSettled(par.docs)
    /\ (asy.active /\ AllDone(asy.task)) => BatchSettled(asy.docs)

(***************************************************************************)
(* C36: enqueue calls for one pair that overlap between the existence      *)
(* check and the insert leave one queued record for the pair: when no      *)
(* enqueue call is under way, no pair has two queued records.              *)
(***************************************************************************)
QueuedOf(q, pair) == {id \in RecordsOf(q, pair) : q[id].status = "queued"}

Enqueueing == \E r \in BagToSet(requests) : r.op = "queue_document"

C36_OneQueuedRecord ==
    ~Enqueueing => \A pair \in Pairs : Cardinality(QueuedOf(queue, pair)) <= 1

(***************************************************************************)
(* C37: the timestamps and results of a record agree with its status: a    *)
(* processing record has started_at, a completed record has completed_at   *)
(* and processed_data, a failed record has failed_at and error_message.    *)
(***************************************************************************)
Agrees(row) ==
    /\ row.status = "processing" => row.started_at # NoTime
    /\ row.status = "completed" =>
          (row.completed_at # NoTime /\ row.processed_data # NoData)
    /\ row.status = "failed" =>
          (row.failed_at # NoTime /\ row.error_message # NoMsg)

C37_FieldsAgree == \A id \in DOMAIN queue : Agrees(queue[id])

\* a queue with a processing, a completed and a failed record, the failed
\* one after a retry
C37_Witness ==
    /\ C37_FieldsAgree
    /\ \E i, j, k \in DOMAIN queue :
          /\ queue[i].status = "processing"
          /\ queue[j].status = "completed"
          /\ queue[k].status = "failed" /\ queue[k].retry_count >= 2

(***************************************************************************)
(* C38: with only driver runs and retry-failed acting on a record, its     *)
(* retry_count never decreases and never exceeds max_retries + 1.          *)
(***************************************************************************)
RetryCountBounded ==
    \A id \in DOMAIN queue : queue[id].retry_count <= queue[id].max_retries + 1

RetryCountGrows ==
    \A id \in (DOMAIN queue) \cap (DOMAIN queue') :
        queue'[id].retry_count >= queue[id].retry_count

C38_RetryCountBounded == []RetryCountBounded /\ [][RetryCountGrows]_vars

(***************************************************************************)
(* C39: in DocumentQueueManager, mark_failed with retry enabled returns    *)
(* the record to pending while its retry_count after the increment is      *)
(* below max_retries and makes it failed otherwise; whatever workers and   *)
(* the cleanup of stale records do to the records taken from pending,      *)
(* retry_count never exceeds max_retries and a failed record never becomes *)
(* pending again.                                                          *)
(***************************************************************************)
WithinMaxRetries ==
    \A id \in DOMAIN document_queue :
        document_queue[id].retry_count <= document_queue[id].max_retries

MarkFailedRule ==
    \A id \in DOMAIN document_queue :
        MarkFailed(id, TRUE) =>
            /\ document_queue'[id].retry_count = document_queue[id].retry_count + 1
            /\ document_queue'[id].status =
                  IF document_queue'[id].retry_count < document_queue'[id].max_retries
                  THEN "pending" ELSE "failed"

FailedStaysFailed ==
    \A id \in DOMAIN document_queue :
        document_queue[id].status = "failed" => document_queue'[id].status # "pending"

C39_RetryWithinMaxRetries ==
    []WithinMaxRetries /\ [][MarkFailedRule /\ FailedStaysFailed]_vars

(***************************************************************************)
(* C40: DirectDocumentProcessor never runs two batches at once: a call     *)
(* made while a batch is in progress returns the already-in-progress       *)
(* error and touches no record, also when two calls start together, and    *)
(* is_processing is false again after every batch.                         *)
(***************************************************************************)
\* the calls that have passed the check and not yet left through finally
InBatch == {t \in DirectThreads : direct.pc[t] \in {"checked", "set", "batch", "ending"}}

C40_OneBatchAtATime ==
    /\ [](Cardinality(InBatch) <= 1)
    /\ [](InBatch = {} => ~direct.is_processing)
    /\ [][\A t \in DirectThreads :
             (DirectCheck(t) /\ InBatch # {}) =>
                 (direct'.result[t] = "in progress" /\ direct'.pc[t] = "idle"
                     /\ queue' = queue)]_vars

====
